---- MODULE Spec2Model ----
(***************************************************************************)
(* phantom-rs: a UDP reverse proxy for a Bedrock game server.              *)
(*                                                                         *)
(* The model covers ProxyInstance (listen / shutdown / wait), the two      *)
(* listening-socket reader tasks (socket_pipe_to_router), the Router actor *)
(* (Actor::process_one driving Router::handle_message), the per-client     *)
(* reader tasks (proxy_remote_read_loop), and, in a specification of its   *)
(* own, the generic Actor with the counter behaviour of the actor tests.   *)
(***************************************************************************)
EXTENDS Naturals, Integers, Sequences, FiniteSets, TLC

\* ------------------------------------------------------------------ bounds
\* what the environment does in a run: calls of listen(), shutdown() and
\* wait() on the one ProxyInstance and datagrams sent by clients, in any mix
MaxInputs == 4
\* messages sent to the counter actor
MaxMsgs == 3
\* sender handles of the counter actor its users hold at a time
MaxHandles == 2
\* tasks spawned with TokioTask::spawn
MaxTasks == 2
\* cancel() calls the owners of the handles make
MaxCancels == 2

\* ------------------------------------------------------- program constants
\* the receive buffer of both reader loops: vec![0; 1024]
BufSize == 1024
\* a DiscoveryPing is 25 bytes
PingLen == 25
\* the shortest DiscoveryPong: 1 + 8 + 8 + 16 + 2
PongMinLen == 35
\* the fixed discovery port, also the port4 a default pong advertises
DiscoveryPort == 19132
\* the sender of its own channel an Actor holds in its `sender` field
OwnSenders == 1

\* A listen() call that sets running starts a run. Run k + 1 can start only
\* after a shutdown() ended run k, so MaxInputs inputs start at most this
\* many runs.
MaxRuns == (MaxInputs + 1) \div 2
\* the listen() calls that started a run, numbered in the order they did
Listeners == 1..MaxRuns
\* the tasks spawned with TokioTask::spawn
Tasks == 1..MaxTasks
\* the two listening sockets of one listen(): port 19132 and opts.bind_port
Socks == {"broadcast", "proxy"}
Clients == {"c1", "c2"}
\* a listening socket is named by the listen() call that bound it
Ports == Listeners \X Socks

\* ------------------------------------------------------------- datagrams
\* A datagram is the first len bytes of a byte string that kind and src
\* identify: two datagrams are the same bytes iff they are the same record.
\* port4 is the port a pong advertises (0 for any other datagram); olen
\* records the length the datagram had when it was first sent.
Dgram(kind, len, src, port4) ==
    [kind |-> kind, len |-> len, olen |-> len, src |-> src, port4 |-> port4]

\* what a client sends: gameplay traffic that fits the buffer, gameplay
\* traffic one byte longer than the buffer, a discovery ping
ClientPayloads(c) ==
    { Dgram("other", PongMinLen, c, 0),
      Dgram("other", BufSize + 1, c, 0),
      Dgram("ping", PingLen, c, 0) }

NoMsg == [data |-> Dgram("none", 0, "none", 0), client_addr |-> "none",
          to_client |-> <<0, "none">>]

\* the messages of the counter actor of the tests
CounterMessages ==
    { [op |-> "Increment", n |-> 1], [op |-> "Add", n |-> 5],
      [op |-> "Reset", n |-> 0] }

VARIABLES
    running,      \* ProxyInstance.running
    lpc,          \* position of each listen() call that set running
    nrejected,    \* listen() calls that returned AlreadyRunning
    spc,          \* the result of each shutdown() call, in the order made
    srun,         \* for each shutdown() call, the run it found in progress (0: none)
    wpc,          \* position of each wait() call, in the order made
    wrun,         \* for each wait() call, the run it found in progress (0: none)
    tasks,        \* ProxyInstance.tasks: the JoinHandles of the reader tasks
    tasksLock,    \* holder of the tasks mutex (0: free)
    sig,          \* broadcast receivers holding an unread shutdown signal
    rd,           \* state of each listening-socket reader task
    inq,          \* datagrams waiting in each listening socket
    apc,          \* position of each Router actor's task
    mailbox,      \* each Router actor's unbounded channel
    cur,          \* the message the Router's handler is processing
    inflight,     \* handler invocations started and not completed
    client_map,   \* RouterState.client_map: client -> upstream socket (0: none)
    ups,          \* the upstream sockets bound so far, in order
    crd,          \* the per-client reader tasks spawned so far, in order
    atServer,     \* datagrams that reached the remote server
    delivered,    \* datagrams relayed to clients
    ninputs,      \* calls made and datagrams sent so far
    nsent,        \* datagrams sent by clients so far
    aState,       \* counter actor: Actor.state.count
    aQueue,       \* counter actor: messages in the channel
    aSent,        \* counter actor: every message sent, in order
    aDone,        \* counter actor: number of messages handled
    aPc,          \* counter actor: position of process_one
    aCur,         \* counter actor: the message being handled
    aUsers,       \* counter actor: sender handles held by the actor's users
    tk,           \* TokioTask: per task, its body, its token, its owner and the
                  \* cancel() calls made on it (late: after it terminated)
    tmInner,      \* TaskManager.inner: the handles added, in order
    tmLock,       \* TaskManager.inner's Mutex: 0 free, else the shutdown() caller
                  \* that holds the guard
    sd,           \* TaskManager::shutdown: the caller's position and locals
    sd2,          \* the same for a shutdown() made on a clone of the manager
    cx            \* codec: the input drawn and the result of the function applied

proxyVars == <<running, lpc, nrejected, spc, srun, wpc, wrun, tasks, tasksLock, sig, rd, inq,
               apc, mailbox, cur, inflight, client_map, ups, crd, atServer,
               delivered, ninputs, nsent>>
actorVars == <<aState, aQueue, aSent, aDone, aPc, aCur, aUsers>>
taskVars == <<tk, tmInner, tmLock, sd, sd2>>
codecVars == <<cx>>
vars == <<proxyVars, actorVars, taskVars, codecVars>>

\* ------------------------------------------------------------------ helpers
\* recv_from into a buffer of n bytes keeps the first n bytes of the datagram.
\* A pong cut short declares more payload than is left, so it no longer
\* decodes (from_bytes: "Not enough data for pong content").
Truncate(d, n) ==
    IF d.len <= n THEN d
    ELSE [d EXCEPT !.len = n,
                   !.kind = IF d.kind = "pong" THEN "other" ELSE d.kind,
                   !.port4 = 0]

\* UnconnectedPong::from_bytes succeeds
DecodesAsPong(d) == d.kind = "pong" /\ d.len >= PongMinLen

\* the port the proxy socket of listen() call l is bound to (OS-assigned)
ProxyPort(l) == DiscoveryPort + l

\* new_pong.pong.port4 = proxy_port.to_string(); new_pong.build()
RewritePong(d, port) == [d EXCEPT !.port4 = port]

\* a listen() that keeps broadcast_socket after the second bind failed
LeakedByListen(p) ==
    \/ p[2] = "broadcast" /\ lpc[p[1]] \in {"bind2", "router", "spawn1", "ret_FailedToBindProxy"}
    \/ p[2] = "proxy" /\ lpc[p[1]] \in {"router", "spawn1", "push1", "spawn2"}

\* who holds an Arc of listening socket p
HeldByListen(p) ==
    \/ p[2] = "broadcast" /\ lpc[p[1]] \in {"bind2", "router", "spawn1"}
    \/ p[2] = "proxy" /\ lpc[p[1]] \in {"router", "spawn1", "push1", "spawn2"}

HeldByMessage(p) ==
    \/ \E l \in Listeners : \E i \in 1..Len(mailbox[l]) : mailbox[l][i].to_client = p
    \/ \E l \in Listeners : apc[l] = "handle" /\ cur[l].to_client = p

HeldByClientReader(p) ==
    \E k \in 1..Len(crd) : crd[k].st = "running" /\ crd[k].to_client = p

\* a socket stays open while any Arc<UdpSocket> of it is alive
SockOpen(p) ==
    \/ HeldByListen(p)
    \/ rd[p] = "running"
    \/ HeldByMessage(p)
    \/ HeldByClientReader(p)

\* the receivers of shutdown_tx that are alive: one per running reader task,
\* and the temporary one of a handle_shutdown that waits in recv()
Receivers ==
    { <<"rd", p>> : p \in { q \in Ports : rd[q] = "running" } }
      \cup { <<"hs", l>> : l \in { k \in Listeners : lpc[k] = "recv" } }

\* the environment may make one more call or send one more datagram
MayInput == ninputs < MaxInputs
Input == ninputs' = ninputs + 1

\* The clients are alike: c2 is the second address that shows up.
ClientsInOrder(c) == c = "c1" \/ nsent > 0

\* the runs started so far; the last of them (0: none yet)
Started == { l \in Listeners : lpc[l] # "idle" }
LastRun == Cardinality(Started)

\* the positions of a call inside listen() after the compare_exchange, and
\* those of them that come before running.store(false)
InListen == {"resolve", "bind1", "bind2", "router", "spawn1", "push1", "spawn2",
             "push2", "subscribe", "recv", "lock", "join", "notify"}
BeforeStore == InListen \ {"notify"}
\* the positions from which running.store(false) has been executed
AfterStore == {"notify", "ret_Ok"}
\* listen() returned the error of resolve_remote_address, of the first
\* bind_socket, of the second bind_socket
FailedListen == {"ret_InvalidAddress", "ret_FailedToBind", "ret_FailedToBindProxy"}

\* ------------------------------------------------------------------- Init
InitProxy ==
    /\ running = FALSE
    /\ lpc = [l \in Listeners |-> "idle"]
    /\ nrejected = 0
    /\ spc = <<>>
    /\ srun = <<>>
    /\ wpc = <<>>
    /\ wrun = <<>>
    /\ tasks = <<>>
    /\ tasksLock = 0
    /\ sig = {}
    /\ rd = [p \in Ports |-> "none"]
    /\ inq = [p \in Ports |-> <<>>]
    /\ apc = [l \in Listeners |-> "none"]
    /\ mailbox = [l \in Listeners |-> <<>>]
    /\ cur = [l \in Listeners |-> NoMsg]
    /\ inflight = [l \in Listeners |-> 0]
    /\ client_map = [l \in Listeners |-> [c \in Clients |-> 0]]
    /\ ups = <<>>
    /\ crd = <<>>
    /\ atServer = {}
    /\ delivered = {}
    /\ ninputs = 0
    /\ nsent = 0

InitActor ==
    /\ aState = 0
    /\ aQueue = <<>>
    /\ aSent = <<>>
    /\ aDone = 0
    /\ aPc = "recv"
    /\ aCur = [op |-> "none", n |-> 0]
    /\ aUsers = 1

\* TaskManager::new(): an empty Vec; no task spawned, shutdown() not called
InitTask ==
    /\ tk = [t \in Tasks |-> [st |-> "none", how |-> "none", cancelled |-> FALSE,
                              owner |-> "none", ncancel |-> 0, late |-> 0]]
    /\ tmInner = <<>>
    /\ sd = [pc |-> "idle", taken |-> <<>>, i |-> 0, joined |-> <<>>]
    /\ sd2 = [pc |-> "idle", taken |-> <<>>, i |-> 0, joined |-> <<>>]
    /\ tmLock = 0

\* no codec function applied
InitCodec == cx = [op |-> "none"]

Init == InitProxy /\ InitActor /\ InitTask /\ InitCodec


\* ============================================================ byte strings
\* A byte string is a sequence of pieces; a piece is n bytes of the text
\* named s, starting at its byte off. Two byte strings are the same bytes iff
\* they are the same sequence: Cat keeps the pieces merged.
Piece(s, off, n) == [s |-> s, off |-> off, n |-> n]

\* the bytes of a literal text (none of them a ';')
T(s) == IF s = "" THEN <<>> ELSE <<Piece(s, 0, Len(s))>>

\* n bytes of text that holds no ';'
Rep(s, n) == IF n = 0 THEN <<>> ELSE <<Piece(s, 0, n)>>

\* the one byte ';'
Semi == <<Piece(";", 0, 1)>>

\* one byte of value v, and the two bytes of a big-endian u16 of value v
Byte(v) == <<Piece("u8", v, 1)>>
U16(v) == <<Piece("u16", v, 2)>>

RECURSIVE BLen(_)
BLen(b) == IF b = <<>> THEN 0 ELSE Head(b).n + BLen(Tail(b))

\* concatenation
Cat(a, b) ==
    IF a = <<>> THEN b
    ELSE IF b = <<>> THEN a
    ELSE LET x == a[Len(a)]
             y == Head(b)
         IN IF x.s = y.s /\ x.s \notin {";", "u8", "u16"} /\ x.off + x.n = y.off
            THEN SubSeq(a, 1, Len(a) - 1)
                     \o <<Piece(x.s, x.off, x.n + y.n)>> \o Tail(b)
            ELSE a \o b

\* the first k bytes, and what follows them (k <= BLen(b))
RECURSIVE Take(_, _)
Take(b, k) ==
    IF k = 0 \/ b = <<>> THEN <<>>
    ELSE IF Head(b).n <= k THEN <<Head(b)>> \o Take(Tail(b), k - Head(b).n)
    ELSE <<Piece(Head(b).s, Head(b).off, k)>>

RECURSIVE Drop(_, _)
Drop(b, k) ==
    IF k = 0 \/ b = <<>> THEN b
    ELSE IF Head(b).n <= k THEN Drop(Tail(b), k - Head(b).n)
    ELSE <<Piece(Head(b).s, Head(b).off + k, Head(b).n - k)>> \o Tail(b)

\* a from_utf8 that accepts any bytes
AnyBytesAreUtf8(b) == TRUE

\* String::from_utf8 succeeds: no piece of the bytes is binary data
IsUtf8(b) == \A i \in 1..Len(b) : b[i].s # "binary"

HasSemi(b) == \E i \in 1..Len(b) : b[i].s = ";"

\* ------------------------------------------------ proto/unconnected_pong
\* UNCONNECTED_PONG_ID = 0x1c
PongId == 28
\* the widths of ping_time / server_guid / client_id and of magic
TimeLen == 8
MagicLen == 16
\* put_u16(len as u16) keeps the length modulo 2^16
U16Mod == 65536

\* MAGIC
Magic == Rep("magic", MagicLen)

\* the fields of PongData, in the order of the payload
FieldNames ==
    <<"edition", "motd", "protocol_version", "version", "players",
      "max_players", "server_id", "sub_motd", "game_mode",
      "game_mode_numeric", "port4", "port6">>

FieldIndex(f) == CHOOSE i \in 1..Len(FieldNames) : FieldNames[i] = f

\* impl Default for PongData
PongDataDefault ==
    [edition |-> T("MCPE"), motd |-> T("phantom Server offline"),
     protocol_version |-> T("800"), version |-> T("1.31.83"),
     players |-> T("0"), max_players |-> T("1"),
     server_id |-> T("13253860892328930865"),
     sub_motd |-> T("Server Offline"), game_mode |-> T("Creative"),
     game_mode_numeric |-> T("1"), port4 |-> T("19132"),
     port6 |-> T("19132")]

\* data.split(';'): the texts between the ';' bytes, empty ones included
RECURSIVE SplitFrom(_, _, _)
SplitFrom(b, part, acc) ==
    IF b = <<>> THEN Append(acc, part)
    ELSE IF Head(b).s = ";" THEN SplitFrom(Tail(b), <<>>, Append(acc, part))
    ELSE SplitFrom(Tail(b), Cat(part, <<Head(b)>>), acc)

Split(b) == SplitFrom(b, <<>>, <<>>)

\* PongData::from_string: the first twelve parts in order, the default for
\* a field the string has no part for; parts beyond the twelfth are ignored
FromString(data) ==
    LET parts == Split(data)
    IN [f \in DOMAIN PongDataDefault |->
            IF FieldIndex(f) <= Len(parts) THEN parts[FieldIndex(f)]
            ELSE PongDataDefault[f]]

\* impl Into<String> for PongData: format!("{};", fields.join(";"))
RECURSIVE JoinFrom(_, _)
JoinFrom(p, i) ==
    IF i > Len(FieldNames) THEN <<>>
    ELSE Cat(Cat(p[FieldNames[i]], Semi), JoinFrom(p, i + 1))

IntoString(p) == JoinFrom(p, 1)

\* UnconnectedPong::build
Build(x) ==
    LET pong_bytes == IntoString(x.pong)
    IN Cat(Byte(PongId),
       Cat(x.ping_time,
       Cat(x.server_guid,
       Cat(x.magic,
       Cat(U16(BLen(pong_bytes) % U16Mod), pong_bytes)))))

\* data.get_u16() on the two bytes of a length field
U16Value(b) == IF Len(b) = 1 /\ b[1].s = "u16" /\ b[1].n = 2 THEN b[1].off ELSE 0

\* a decode failure that takes the caller down with it
CrashOnError == [ok |-> FALSE, panic |-> TRUE]

\* Err(&'static str)
DecodeError == [ok |-> FALSE]

\* UnconnectedPong::from_bytes
FromBytes(data) ==
    IF BLen(data) < PongMinLen THEN DecodeError
    ELSE IF Take(data, 1) # Byte(PongId) THEN DecodeError
    ELSE LET afterId == Drop(data, 1)
             afterTime == Drop(afterId, TimeLen)
             afterGuid == Drop(afterTime, TimeLen)
             afterMagic == Drop(afterGuid, MagicLen)
             pong_len == U16Value(Take(afterMagic, 2))
             rest == Drop(afterMagic, 2)
             pong_bytes == Take(rest, pong_len)
         IN IF BLen(rest) < pong_len THEN DecodeError
            ELSE IF ~IsUtf8(pong_bytes) THEN DecodeError
            ELSE [ok |-> TRUE,
                  val |-> [ping_time |-> Take(afterId, TimeLen),
                           server_guid |-> Take(afterTime, TimeLen),
                           magic |-> Take(afterGuid, MagicLen),
                           pong |-> FromString(pong_bytes)]]

\* a rewrite that leaves the port it found
KeepDefaultPort(port) == T("19132")

\* proxy_port.to_string()
PortString(port) == T(ToString(port))

\* proxy_remote_read_loop, for one datagram read into its buffer: a pong is
\* rebuilt with port4 replaced, anything else is relayed as read
RelayBytes(dgram, proxy_port) ==
    LET data == Take(dgram, BufSize)
        r == FromBytes(data)
    IN IF r.ok
       THEN Build([r.val EXCEPT !.pong.port4 = PortString(proxy_port)])
       ELSE data

\* ------------------------------------------------ proto/unconnected_ping
\* UNCONNECTED_PING_ID = 0x01
PingId == 1

\* copy_to_slice on fewer bytes than the slice holds panics
DecodePanic == [ok |-> FALSE, panic |-> TRUE]

\* a build() that leaves client_id out
PingBuildWithoutClientId(x) ==
    Cat(Byte(PingId), Cat(x.ping_time, x.magic))

\* UnconnectedPing::build
PingBuild(x) ==
    Cat(Byte(PingId), Cat(x.ping_time, Cat(x.magic, x.client_id)))

\* UnconnectedPing::from_bytes: the length test admits 25 bytes, the reads
\* take 1 + 8 + 16 + 8
PingFromBytes(data) ==
    IF BLen(data) < PingLen THEN DecodeError
    ELSE IF Take(data, 1) # Byte(PingId) THEN DecodeError
    ELSE LET afterId == Drop(data, 1)
             afterTime == Drop(afterId, TimeLen)
             afterMagic == Drop(afterTime, MagicLen)
         IN IF BLen(afterMagic) < TimeLen THEN DecodePanic
            ELSE [ok |-> TRUE,
                  val |-> [ping_time |-> Take(afterId, TimeLen),
                           magic |-> Take(afterTime, MagicLen),
                           client_id |-> Take(afterMagic, TimeLen)]]

\* ---------------------------------------------------- the inputs drawn
\* texts a PongData field can hold: empty, short, 2^16 bytes long, and one
\* that holds a ';'
FieldTexts ==
    { <<>>, T("a"), Rep("long", U16Mod), Cat(T("a"), Cat(Semi, T("b"))) }

EightBytes == { Rep("time", TimeLen), Rep("zero", TimeLen) }

\* pongs that differ from the default pong in one field
PongObjects ==
    { [ping_time |-> t, server_guid |-> Rep("guid", TimeLen), magic |-> Magic,
       pong |-> [PongDataDefault EXCEPT ![FieldNames[i]] = v]] :
          t \in EightBytes, i \in 1..Len(FieldNames), v \in FieldTexts }

\* a payload of the given fields, each followed by ';'
RECURSIVE PayloadOf(_)
PayloadOf(fields) ==
    IF fields = <<>> THEN <<>>
    ELSE Cat(Cat(T(Head(fields)), Semi), PayloadOf(Tail(fields)))

\* the payload of a real server: thirteen fields
LiteralPayload ==
    PayloadOf(<<"MCPE", "Dedicated Server", "800", "1.21.83", "0", "10",
                "11675972934497731543", "Bedrock level", "Survival", "1",
                "19132", "19133", "0">>)

\* the same without its thirteenth field
TwelveFieldPayload ==
    PayloadOf(<<"MCPE", "Dedicated Server", "800", "1.21.83", "0", "10",
                "11675972934497731543", "Bedrock level", "Survival", "1",
                "19132", "19133">>)

Payloads ==
    { LiteralPayload, TwelveFieldPayload, PayloadOf(<<"MCPE", "x">>), <<>>,
      Rep("binary", PongMinLen) }

\* a 0x1c packet with the given payload and declared payload length
PongPacket(t, declared, payload) ==
    Cat(Byte(PongId), Cat(t, Cat(Rep("guid", TimeLen),
        Cat(Magic, Cat(U16(declared), payload)))))

\* what the server sends to an upstream socket: pongs as built, pongs with
\* a right or wrong length field, gameplay traffic short and over-long
ServerDatagrams ==
    { Build(x) : x \in { y \in PongObjects : y.ping_time = Rep("time", TimeLen) } }
      \cup { PongPacket(t, BLen(p) + extra, p) :
                t \in EightBytes, p \in Payloads, extra \in {0, 1} }
      \cup { Rep("game", PongMinLen), Rep("game", BufSize + 1),
             Cat(Byte(PongId), Rep("game", TimeLen)) }

\* the ports a proxy socket is bound to
RelayPorts == { ProxyPort(l) : l \in Listeners }

\* buffers handed to UnconnectedPing::from_bytes
PingBuffers ==
    { Cat(Byte(id), Cat(t, Cat(m, tail))) :
          id \in {PingId, PongId}, t \in EightBytes,
          m \in {Magic, Rep("zero", MagicLen)},
          tail \in {<<>>, Rep("cid", TimeLen), Rep("cid", 4)} }

\* buffers too short for a ping, or for a pong: empty, the packet id alone,
\* one byte less than the shortest packet
ShortBuffers ==
    { <<>>, Byte(PingId), Byte(PongId),
      Cat(Byte(PingId), Rep("zero", PingLen - 2)),
      Cat(Byte(PongId), Rep("zero", PongMinLen - 2)),
      Cat(Byte(PongId), Cat(Rep("time", TimeLen), Cat(Rep("guid", TimeLen), Magic))) }

\* buffers handed to UnconnectedPong::from_bytes: what a server sends, short
\* buffers, pings, and pongs that declare an empty payload
PongBuffers ==
    ServerDatagrams \cup ShortBuffers \cup PingBuffers
      \cup { PongPacket(Rep("time", TimeLen), 0, p) : p \in Payloads }

\* the UnconnectedPing values: made by new(), or with a magic field set to
\* other bytes (the fields are public, from_bytes keeps what it read)
PingObjects ==
    { [ping_time |-> t, magic |-> m, client_id |-> c] :
          t \in EightBytes, m \in {Magic, Rep("zero", MagicLen)},
          c \in {Rep("cid", TimeLen), Rep("zero", TimeLen)} }

\* payloads that are text
TextPayloads == { p \in Payloads : IsUtf8(p) }

CodecInputs ==
    { [op |-> "input", fn |-> "relay", in |-> d, port |-> p] :
          d \in ServerDatagrams, p \in RelayPorts }
      \cup { [op |-> "input", fn |-> "pong", in |-> x] : x \in PongObjects }
      \cup { [op |-> "input", fn |-> "payload", in |-> p] :
                p \in Payloads \ {Rep("binary", PongMinLen)} }
      \cup { [op |-> "input", fn |-> "ping", in |-> b] : b \in PingBuffers }
      \cup { [op |-> "input", fn |-> "ping_decode", in |-> b] :
                b \in PingBuffers \cup ShortBuffers }
      \cup { [op |-> "input", fn |-> "pong_decode", in |-> b] : b \in PongBuffers }
      \cup { [op |-> "input", fn |-> "ping_build", in |-> x] : x \in PingObjects }
      \cup { [op |-> "input", fn |-> "from_string", in |-> p] : p \in TextPayloads }
      \cup { [op |-> "input", fn |-> "pong_build", in |-> x] : x \in PongObjects }
\* ------------------------------------------------- ProxyInstance::listen
\* a compare_exchange that succeeds whatever the flag holds
CasAlwaysSucceeds(flag) == TRUE

\* compare_exchange(false, true, ..) succeeds when the flag holds false
CasSucceeds(flag) == flag = FALSE

\* running.compare_exchange(false, true).map_err(|_| AlreadyRunning)?
\* The call starts the next run or returns AlreadyRunning.
ListenCAS ==
    /\ MayInput /\ Input
    /\ IF CasSucceeds(running)
         THEN /\ LastRun < MaxRuns
              /\ running' = TRUE
              /\ lpc' = [lpc EXCEPT ![LastRun + 1] = "resolve"]
              /\ UNCHANGED nrejected
         ELSE /\ nrejected' = nrejected + 1
              /\ UNCHANGED <<running, lpc>>
    /\ UNCHANGED <<spc, srun, wpc, wrun, tasks, tasksLock, sig, rd, inq, apc,
                  mailbox, cur, inflight, client_map, ups, crd, atServer,
                  delivered, nsent, actorVars, taskVars, codecVars>>

\* resolve_remote_address(&self.opts.server).await?
ListenResolve(l) ==
    /\ lpc[l] = "resolve"
    /\ \E ok \in BOOLEAN :
          lpc' = [lpc EXCEPT ![l] = IF ok THEN "bind1" ELSE "ret_InvalidAddress"]
    /\ UNCHANGED <<running, nrejected, spc, srun, wpc, wrun, tasks, tasksLock,
                  sig, rd, inq, apc, mailbox, cur, inflight, client_map, ups,
                  crd, atServer, delivered, ninputs, nsent, actorVars,
                  taskVars, codecVars>>

\* bind_socket(&self.opts.bind, 19132).await?  The bind fails while a socket
\* of an earlier listen() is still open on the port, or for a reason of the
\* environment's.
ListenBindBroadcast(l) ==
    /\ lpc[l] = "bind1"
    /\ \E ok \in BOOLEAN :
          /\ ok => \A k \in Listeners : ~SockOpen(<<k, "broadcast">>)
          /\ lpc' = [lpc EXCEPT ![l] = IF ok THEN "bind2" ELSE "ret_FailedToBind"]
    /\ UNCHANGED <<running, nrejected, spc, srun, wpc, wrun, tasks, tasksLock,
                  sig, rd, inq, apc, mailbox, cur, inflight, client_map, ups,
                  crd, atServer, delivered, ninputs, nsent, actorVars,
                  taskVars, codecVars>>

\* bind_socket(&self.opts.bind, self.opts.bind_port).await?  bind_port is 0
\* (the command line's default): the OS picks a free port. On failure the
\* function returns and drops broadcast_socket.
ListenBindProxy(l) ==
    /\ lpc[l] = "bind2"
    /\ \E ok \in BOOLEAN :
          lpc' = [lpc EXCEPT ![l] = IF ok THEN "router" ELSE "ret_FailedToBindProxy"]
    /\ UNCHANGED <<running, nrejected, spc, srun, wpc, wrun, tasks, tasksLock,
                  sig, rd, inq, apc, mailbox, cur, inflight, client_map, ups,
                  crd, atServer, delivered, ninputs, nsent, actorVars,
                  taskVars, codecVars>>

\* Router::new(remote_addr, proxy_port): Actor::new(..).start() spawns the
\* actor's run_loop with an empty client_map
ListenRouter(l) ==
    /\ lpc[l] = "router"
    /\ apc' = [apc EXCEPT ![l] = "recv"]
    /\ lpc' = [lpc EXCEPT ![l] = "spawn1"]
    /\ UNCHANGED <<running, nrejected, spc, srun, wpc, wrun, tasks, tasksLock,
                  sig, rd, inq, mailbox, cur, inflight, client_map, ups, crd,
                  atServer, delivered, ninputs, nsent, actorVars, taskVars,
                  codecVars>>

\* spawn_socket_reader, first half: shutdown_tx.subscribe() and tokio::spawn
\* of socket_pipe_to_router, which takes the socket
SpawnReader(l, s, from, to) ==
    /\ lpc[l] = from
    /\ rd' = [rd EXCEPT ![<<l, s>>] = "running"]
    /\ lpc' = [lpc EXCEPT ![l] = to]
    /\ UNCHANGED <<running, nrejected, spc, srun, wpc, wrun, tasks, tasksLock,
                  sig, inq, apc, mailbox, cur, inflight, client_map, ups,
                  crd, atServer, delivered, ninputs, nsent, actorVars,
                  taskVars, codecVars>>

\* spawn_socket_reader, second half: self.tasks.lock().await; tasks.push(task)
PushTask(l, s, from, to) ==
    /\ lpc[l] = from
    /\ tasksLock = 0
    /\ tasks' = Append(tasks, <<l, s>>)
    /\ lpc' = [lpc EXCEPT ![l] = to]
    /\ UNCHANGED <<running, nrejected, spc, srun, wpc, wrun, tasksLock, sig,
                  rd, inq, apc, mailbox, cur, inflight, client_map, ups, crd,
                  atServer, delivered, ninputs, nsent, actorVars, taskVars,
                  codecVars>>

\* self.spawn_socket_reader(broadcast_socket, &router).await;
\* self.spawn_socket_reader(proxy_socket, &router).await
ListenSpawnBroadcast(l) == SpawnReader(l, "broadcast", "spawn1", "push1")
ListenPushBroadcast(l) == PushTask(l, "broadcast", "push1", "spawn2")
ListenSpawnProxy(l) == SpawnReader(l, "proxy", "spawn2", "push2")
ListenPushProxy(l) == PushTask(l, "proxy", "push2", "subscribe")

\* ---------------------------------------- ProxyInstance::handle_shutdown
\* self.shutdown_tx.subscribe(): a receiver that sees only later sends
HsSubscribe(l) ==
    /\ lpc[l] = "subscribe"
    /\ lpc' = [lpc EXCEPT ![l] = "recv"]
    /\ UNCHANGED <<running, nrejected, spc, srun, wpc, wrun, tasks, tasksLock,
                  sig, rd, inq, apc, mailbox, cur, inflight, client_map, ups,
                  crd, atServer, delivered, ninputs, nsent, actorVars,
                  taskVars, codecVars>>

\* .recv().await.ok(): returns on a signal (Ok or Lagged), drops the receiver
HsRecv(l) ==
    /\ lpc[l] = "recv"
    /\ <<"hs", l>> \in sig
    /\ sig' = sig \ {<<"hs", l>>}
    /\ lpc' = [lpc EXCEPT ![l] = "lock"]
    /\ UNCHANGED <<running, nrejected, spc, srun, wpc, wrun, tasks, tasksLock,
                  rd, inq, apc, mailbox, cur, inflight, client_map, ups, crd,
                  atServer, delivered, ninputs, nsent, actorVars, taskVars,
                  codecVars>>

\* let mut tasks = self.tasks.lock().await: held to the end of the function
HsLock(l) ==
    /\ lpc[l] = "lock"
    /\ tasksLock = 0
    /\ tasksLock' = l
    /\ lpc' = [lpc EXCEPT ![l] = "join"]
    /\ UNCHANGED <<running, nrejected, spc, srun, wpc, wrun, tasks, sig, rd,
                  inq, apc, mailbox, cur, inflight, client_map, ups, crd,
                  atServer, delivered, ninputs, nsent, actorVars, taskVars,
                  codecVars>>

\* the drained handle is dropped without being awaited
TaskDropped(p) == TRUE

\* let _ = task.await: completes when the reader task has terminated
TaskAwaited(p) == rd[p] = "done"

\* for task in tasks.drain(..) { let _ = task.await; }: one task at a time,
\* in the order pushed
HsJoin(l) ==
    /\ lpc[l] = "join"
    /\ tasks # <<>>
    /\ TaskAwaited(Head(tasks))
    /\ tasks' = Tail(tasks)
    /\ UNCHANGED <<running, lpc, nrejected, spc, srun, wpc, wrun, tasksLock,
                  sig, rd, inq, apc, mailbox, cur, inflight, client_map, ups,
                  crd, atServer, delivered, ninputs, nsent, actorVars,
                  taskVars, codecVars>>

\* self.running.store(false)
HsStore(l) ==
    /\ lpc[l] = "join"
    /\ tasks = <<>>
    /\ running' = FALSE
    /\ lpc' = [lpc EXCEPT ![l] = "notify"]
    /\ UNCHANGED <<nrejected, spc, srun, wpc, wrun, tasks, tasksLock, sig, rd,
                  inq, apc, mailbox, cur, inflight, client_map, ups, crd,
                  atServer, delivered, ninputs, nsent, actorVars, taskVars,
                  codecVars>>

\* self.notify_on_shutdown.notify_waiters(): wakes the callers registered by
\* notified() and stores no permit; then the function returns, the guard of
\* the tasks mutex is dropped and listen() returns Ok
HsNotify(l) ==
    /\ lpc[l] = "notify"
    /\ wpc' = [w \in DOMAIN wpc |-> IF wpc[w] = "waiting" THEN "woken" ELSE wpc[w]]
    /\ tasksLock' = 0
    /\ lpc' = [lpc EXCEPT ![l] = "ret_Ok"]
    /\ UNCHANGED <<running, nrejected, spc, srun, wrun, tasks, sig, rd, inq,
                  apc, mailbox, cur, inflight, client_map, ups, crd,
                  atServer, delivered, ninputs, nsent, actorVars, taskVars,
                  codecVars>>

\* ----------------------------------------------- ProxyInstance::shutdown
\* self.shutdown_tx.send(()): every live receiver gets the signal; with no
\* live receiver send fails and shutdown returns UnknownError
Shutdown ==
    /\ MayInput /\ Input
    /\ IF Receivers = {}
         THEN /\ spc' = Append(spc, "UnknownError")
              /\ UNCHANGED sig
         ELSE /\ spc' = Append(spc, "Ok")
              /\ sig' = Receivers
    /\ srun' = Append(srun, IF running THEN LastRun ELSE 0)
    /\ UNCHANGED <<running, lpc, nrejected, wpc, wrun, tasks, tasksLock, rd,
                  inq, apc, mailbox, cur, inflight, client_map, ups, crd,
                  atServer, delivered, nsent, actorVars, taskVars, codecVars>>

\* --------------------------------------------------- ProxyInstance::wait
\* if !self.is_running() { return; }
WaitCheck ==
    /\ MayInput /\ Input
    /\ wpc' = Append(wpc, IF running THEN "checked" ELSE "ret")
    /\ wrun' = Append(wrun, IF running THEN LastRun ELSE 0)
    /\ UNCHANGED <<running, lpc, nrejected, spc, srun, tasks, tasksLock, sig,
                  rd, inq, apc, mailbox, cur, inflight, client_map, ups, crd,
                  atServer, delivered, nsent, actorVars, taskVars, codecVars>>

\* self.notify_on_shutdown.notified(): the caller is registered from here on
WaitRegister(w) ==
    /\ wpc[w] = "checked"
    /\ wpc' = [wpc EXCEPT ![w] = "waiting"]
    /\ UNCHANGED <<running, lpc, nrejected, spc, srun, wrun, tasks, tasksLock,
                  sig, rd, inq, apc, mailbox, cur, inflight, client_map, ups,
                  crd, atServer, delivered, ninputs, nsent, actorVars,
                  taskVars, codecVars>>

\* .await of the Notified future completes after notify_waiters
WaitReturn(w) ==
    /\ wpc[w] = "woken"
    /\ wpc' = [wpc EXCEPT ![w] = "ret"]
    /\ UNCHANGED <<running, lpc, nrejected, spc, srun, wrun, tasks, tasksLock,
                  sig, rd, inq, apc, mailbox, cur, inflight, client_map, ups,
                  crd, atServer, delivered, ninputs, nsent, actorVars,
                  taskVars, codecVars>>

\* ------------------------------------------------------------- the clients
\* A client sends a datagram to a listening port: it reaches the socket that
\* is open on the port. A datagram sent to a socket whose reader task has
\* ended is never read: such sends are left out.
ClientSend(c, p, d) ==
    /\ MayInput /\ Input /\ ClientsInOrder(c)
    /\ rd[p] # "done"
    /\ SockOpen(p)
    /\ nsent' = nsent + 1
    /\ inq' = [inq EXCEPT ![p] = Append(@, [from |-> c, data |-> d])]
    /\ UNCHANGED <<running, lpc, nrejected, spc, srun, wpc, wrun, tasks,
                  tasksLock, sig, rd, apc, mailbox, cur, inflight,
                  client_map, ups, crd, atServer, delivered, actorVars,
                  taskVars, codecVars>>

\* ---------------------------------------------- socket_pipe_to_router
\* a task whose end takes the other reader task of its listen() with it
ReaderEndsBoth(p) ==
    /\ rd' = [q \in Ports |-> IF q[1] = p[1] /\ rd[q] = "running" THEN "done" ELSE rd[q]]
    /\ sig' = sig \ {<<"rd", p>>}
    /\ inq' = [inq EXCEPT ![p] = <<>>]

\* the task ends: its receiver, its socket (with what is queued in it) and
\* its ActorRef are dropped
ReaderEnds(p) ==
    /\ rd' = [rd EXCEPT ![p] = "done"]
    /\ sig' = sig \ {<<"rd", p>>}
    /\ inq' = [inq EXCEPT ![p] = <<>>]

\* select!: _ = shutdown_rx.recv() => break
ReaderShutdown(p) ==
    /\ rd[p] = "running"
    /\ <<"rd", p>> \in sig
    /\ ReaderEnds(p)
    /\ UNCHANGED <<running, lpc, nrejected, spc, srun, wpc, wrun, tasks,
                  tasksLock, apc, mailbox, cur, inflight, client_map, ups,
                  crd, atServer, delivered, ninputs, nsent, actorVars,
                  taskVars, codecVars>>

\* router.send(..): Err (logged) once the actor's receiver is gone
RouterSend(l, m) ==
    IF apc[l] = "panicked" THEN mailbox
    ELSE [mailbox EXCEPT ![l] = Append(@, m)]

\* select!: read_res = socket.recv_from(&mut buf) => Ok((len, client_addr)):
\* the first len <= 1024 bytes go to the Router with the sender's address
\* and this socket. The break that follows the match leaves the loop after
\* this first datagram.
ReaderRecv(p) ==
    /\ rd[p] = "running"
    /\ inq[p] # <<>>
    /\ LET d == Head(inq[p])
           m == [data |-> Truncate(d.data, BufSize), client_addr |-> d.from,
                 to_client |-> p]
       IN mailbox' = RouterSend(p[1], m)
    /\ ReaderEnds(p)
    /\ UNCHANGED <<running, lpc, nrejected, spc, srun, wpc, wrun, tasks,
                  tasksLock, apc, cur, inflight, client_map, ups, crd,
                  atServer, delivered, ninputs, nsent, actorVars, taskVars,
                  codecVars>>

\* select!: recv_from => Err(e): break
ReaderRecvErr(p) ==
    /\ rd[p] = "running"
    /\ ReaderEnds(p)
    /\ UNCHANGED <<running, lpc, nrejected, spc, srun, wpc, wrun, tasks,
                  tasksLock, apc, mailbox, cur, inflight, client_map, ups,
                  crd, atServer, delivered, ninputs, nsent, actorVars,
                  taskVars, codecVars>>

\* ------------------------------------------- Actor::process_one (Router)
\* a channel that hands out the newest message first
DequeueLast(q) == <<q[Len(q)], SubSeq(q, 1, Len(q) - 1)>>

\* self.receiver.recv(): the oldest message of the channel and the rest
Dequeue(q) == <<Head(q), Tail(q)>>

\* a loop that receives again while the handler's future is pending
MayDequeueWhileHandling(l) == apc[l] \in {"recv", "handle"}

\* process_one is called again only when the handler's future has completed
MayDequeue(l) == apc[l] = "recv"

\* self.receiver.recv().await returns Some(message); behavior.handle starts
\* on a clone of the state
RouterRecv(l) ==
    /\ apc[l] \in {"recv", "handle"}
    /\ MayDequeue(l)
    /\ mailbox[l] # <<>>
    /\ cur' = [cur EXCEPT ![l] = Dequeue(mailbox[l])[1]]
    /\ mailbox' = [mailbox EXCEPT ![l] = Dequeue(@)[2]]
    /\ apc' = [apc EXCEPT ![l] = "handle"]
    /\ inflight' = [inflight EXCEPT ![l] = @ + 1]
    /\ UNCHANGED <<running, lpc, nrejected, spc, srun, wpc, wrun, tasks,
                  tasksLock, sig, rd, inq, client_map, ups, crd, atServer,
                  delivered, ninputs, nsent, actorVars, taskVars, codecVars>>

\* a try_add_connection without the contains_key test
IsAlwaysNewClient(state, c) == TRUE

\* try_add_connection: !state.client_map.contains_key(&client_addr)
IsNewClient(state, c) == state[c] = 0

\* try_add_connection for a new client: the upstream socket bound ...
NewUpstream(l, m) == [router |-> l, client |-> m.client_addr, q |-> <<>>]

\* ... and the task spawned to read it:
\* proxy_remote_read_loop(to_server, to_client, client_addr, proxy_port)
NewClientReader(l, m, u) ==
    [router |-> l, to_server |-> u, to_client |-> m.to_client,
     client_addr |-> m.client_addr, proxy_port |-> ProxyPort(l),
     st |-> "running"]

\* a try_add_connection that maps every later client to the first upstream
\* socket instead of binding one for it
TryAddConnectionShared(l, m, state) ==
    IF ~IsNewClient(state, m.client_addr)
    THEN [state |-> state, ups |-> ups, crd |-> crd]
    ELSE IF \E u \in 1..Len(ups) : ups[u].router = l
    THEN [state |-> [state EXCEPT ![m.client_addr] =
                        CHOOSE u \in 1..Len(ups) : ups[u].router = l /\
                            \A v \in 1..Len(ups) : ups[v].router = l => u <= v],
          ups |-> ups, crd |-> crd]
    ELSE [state |-> [state EXCEPT ![m.client_addr] = Len(ups) + 1],
          ups |-> Append(ups, NewUpstream(l, m)),
          crd |-> Append(crd, NewClientReader(l, m, Len(ups) + 1))]

\* try_add_connection(&mut state, client_addr, to_client): the state, the
\* sockets and the reader tasks after it
TryAddConnection(l, m, state) ==
    IF IsNewClient(state, m.client_addr)
    THEN [state |-> [state EXCEPT ![m.client_addr] = Len(ups) + 1],
          ups |-> Append(ups, NewUpstream(l, m)),
          crd |-> Append(crd, NewClientReader(l, m, Len(ups) + 1))]
    ELSE [state |-> state, ups |-> ups, crd |-> crd]

\* Router::handle_message: try_add_connection, then the payload is sent from
\* the client's upstream socket to the remote server; process_one replaces
\* the actor's state with the handler's result
RouterHandle(l) ==
    /\ apc[l] = "handle"
    /\ LET m == cur[l]
           r == TryAddConnection(l, m, client_map[l])
           u == r.state[m.client_addr]
       IN /\ ups' = r.ups
          /\ crd' = r.crd
          /\ client_map' = [client_map EXCEPT ![l] = r.state]
          /\ atServer' = IF u = 0 THEN atServer
                         ELSE atServer \cup {[from |-> u, data |-> m.data]}
    /\ apc' = [apc EXCEPT ![l] = "recv"]
    /\ cur' = [cur EXCEPT ![l] = NoMsg]
    /\ inflight' = [inflight EXCEPT ![l] = @ - 1]
    /\ UNCHANGED <<running, lpc, nrejected, spc, srun, wpc, wrun, tasks,
                  tasksLock, sig, rd, inq, mailbox, delivered, ninputs,
                  nsent, actorVars, taskVars, codecVars>>

\* a supervised loop: the failed message is given up and recv is called again
LoopRestarts(l) == "recv"

\* the panic unwinds through process_one and run_loop: the spawned task ends
LoopEnds(l) == "panicked"

\* the actor's task panics: its state and its receiver, with the messages
\* still queued, are dropped
ActorPanics(l) ==
    /\ apc' = [apc EXCEPT ![l] = LoopEnds(l)]
    /\ cur' = [cur EXCEPT ![l] = NoMsg]
    /\ mailbox' = [mailbox EXCEPT ![l] = <<>>]
    /\ inflight' = [inflight EXCEPT ![l] = @ - 1]

\* UdpSocket::bind("0.0.0.0:0").await.unwrap() fails for a new client
RouterPanicBind(l) ==
    /\ apc[l] = "handle"
    /\ IsNewClient(client_map[l], cur[l].client_addr)
    /\ ActorPanics(l)
    /\ UNCHANGED <<running, lpc, nrejected, spc, srun, wpc, wrun, tasks,
                  tasksLock, sig, rd, inq, client_map, ups, crd, atServer,
                  delivered, ninputs, nsent, actorVars, taskVars, codecVars>>

\* to_server.send_to(&data, state.remote_addr).await.unwrap() fails: a new
\* client's socket was bound and its reader task spawned before, and the new
\* state is lost with the actor
RouterPanicSend(l) ==
    /\ apc[l] = "handle"
    /\ LET r == TryAddConnection(l, cur[l], client_map[l])
       IN ups' = r.ups /\ crd' = r.crd
    /\ ActorPanics(l)
    /\ UNCHANGED <<running, lpc, nrejected, spc, srun, wpc, wrun, tasks,
                  tasksLock, sig, rd, inq, client_map, atServer, delivered,
                  ninputs, nsent, actorVars, taskVars, codecVars>>

\* ------------------------------------------------------ the remote server
\* the server answers a datagram on the upstream socket it came from: a
\* ping with a pong advertising its own port, anything else with an echo
ServerAnswer(d) ==
    IF d.kind = "ping" THEN Dgram("pong", PongMinLen + PingLen, d.src, DiscoveryPort)
    ELSE d

\* A reply to a socket whose reader task has ended is never read and is not
\* kept.
ServerReply(x) ==
    /\ x \in atServer
    /\ atServer' = atServer \ {x}
    /\ ups' = IF \E k \in 1..Len(crd) : crd[k].to_server = x.from /\ crd[k].st = "running"
              THEN [ups EXCEPT ![x.from].q = Append(@, ServerAnswer(x.data))]
              ELSE ups
    /\ UNCHANGED <<running, lpc, nrejected, spc, srun, wpc, wrun, tasks,
                  tasksLock, sig, rd, inq, apc, mailbox, cur, inflight,
                  client_map, crd, delivered, ninputs, nsent, actorVars,
                  taskVars, codecVars>>

\* ---------------------------------------------- proxy_remote_read_loop
\* what the task sends to the client for a datagram read into its buffer
Relayed(d, port) == IF DecodesAsPong(d) THEN RewritePong(d, port) ELSE d

\* a relay to one fixed address
RelayToFirstClient(t) == "c1"

\* the address the task relays to: its client_addr parameter
RelayTarget(t) == t.client_addr

\* to_server.recv_from(&mut buf) => Ok: relay to the client through the
\* listening socket the client's first packet came in on
ClientReaderRelay(k) ==
    /\ crd[k].st = "running"
    /\ ups[crd[k].to_server].q # <<>>
    /\ LET t == crd[k]
           d == Truncate(Head(ups[t.to_server].q), BufSize)
       IN delivered' = delivered \cup
            {[to |-> RelayTarget(t), via |-> t.to_client, from |-> t.to_server,
              data |-> Relayed(d, t.proxy_port)]}
    /\ ups' = [ups EXCEPT ![crd[k].to_server].q = Tail(@)]
    /\ UNCHANGED <<running, lpc, nrejected, spc, srun, wpc, wrun, tasks,
                  tasksLock, sig, rd, inq, apc, mailbox, cur, inflight,
                  client_map, crd, atServer, ninputs, nsent, actorVars,
                  taskVars, codecVars>>

\* recv_from => Err(e): break; or to_client.send_to(..).await.unwrap() fails
\* and the task panics. Either way the task ends.
ClientReaderFails(k) ==
    /\ crd[k].st = "running"
    /\ crd' = [crd EXCEPT ![k].st = "done"]
    /\ ups' = [ups EXCEPT ![crd[k].to_server].q = <<>>]
    /\ UNCHANGED <<running, lpc, nrejected, spc, srun, wpc, wrun, tasks,
                  tasksLock, sig, rd, inq, apc, mailbox, cur, inflight,
                  client_map, atServer, delivered, ninputs, nsent, actorVars,
                  taskVars, codecVars>>

\* ------------------------------------------------------------------- Next
Next ==
    \/ ListenCAS
    \/ Shutdown
    \/ WaitCheck
    \/ \E l \in Listeners :
          \/ ListenResolve(l)
          \/ ListenBindBroadcast(l)
          \/ ListenBindProxy(l)
          \/ ListenRouter(l)
          \/ ListenSpawnBroadcast(l)
          \/ ListenPushBroadcast(l)
          \/ ListenSpawnProxy(l)
          \/ ListenPushProxy(l)
          \/ HsSubscribe(l)
          \/ HsRecv(l)
          \/ HsLock(l)
          \/ HsJoin(l)
          \/ HsStore(l)
          \/ HsNotify(l)
          \/ RouterRecv(l)
          \/ RouterHandle(l)
          \/ RouterPanicBind(l)
          \/ RouterPanicSend(l)
    \/ \E w \in DOMAIN wpc : WaitRegister(w) \/ WaitReturn(w)
    \/ \E p \in Ports : ReaderShutdown(p) \/ ReaderRecv(p) \/ ReaderRecvErr(p)
    \/ \E c \in Clients, p \in Ports : \E d \in ClientPayloads(c) : ClientSend(c, p, d)
    \/ \E x \in atServer : ServerReply(x)
    \/ \E k \in 1..Len(crd) : ClientReaderRelay(k) \/ ClientReaderFails(k)

Spec == Init /\ [][Next]_vars

\* The steps the program takes by itself once it can: the rest of a listen()
\* or wait() call in progress and the tasks' reads. Calls, datagrams sent,
\* the server's replies and I/O failures are the environment's to make.
Internal ==
    \/ \E l \in Listeners :
          \/ ListenResolve(l)
          \/ ListenBindBroadcast(l)
          \/ ListenBindProxy(l)
          \/ ListenRouter(l)
          \/ ListenSpawnBroadcast(l)
          \/ ListenPushBroadcast(l)
          \/ ListenSpawnProxy(l)
          \/ ListenPushProxy(l)
          \/ HsSubscribe(l)
          \/ HsRecv(l)
          \/ HsLock(l)
          \/ HsJoin(l)
          \/ HsStore(l)
          \/ HsNotify(l)
          \/ RouterRecv(l)
          \/ RouterHandle(l)
    \/ \E w \in DOMAIN wpc : WaitRegister(w) \/ WaitReturn(w)
    \/ \E p \in Ports : ReaderShutdown(p) \/ ReaderRecv(p)
    \/ \E k \in 1..Len(crd) : ClientReaderRelay(k)

\* the tokio runtime keeps polling a task that can make progress
FairSpec == Spec /\ WF_vars(Internal)

\* ------------------------------------------ the counter actor of the tests
\* the senders of the channel that are alive: the ActorRefs the users hold
\* and the sender the Actor keeps in its own field
SendersAlive == aUsers + OwnSenders

\* ActorRef::clone(): one more handle in the users' hands
ActorRefClone ==
    /\ aUsers > 0
    /\ aUsers < MaxHandles
    /\ aUsers' = aUsers + 1
    /\ UNCHANGED <<aState, aQueue, aSent, aDone, aPc, aCur, proxyVars,
                  taskVars, codecVars>>

\* a user drops an ActorRef
ActorRefDrop ==
    /\ aUsers > 0
    /\ aUsers' = aUsers - 1
    /\ UNCHANGED <<aState, aQueue, aSent, aDone, aPc, aCur, proxyVars,
                  taskVars, codecVars>>

\* sender.send(message)
ActorSend(m) ==
    /\ aUsers > 0
    /\ Len(aSent) < MaxMsgs
    /\ aQueue' = Append(aQueue, m)
    /\ aSent' = Append(aSent, m)
    /\ UNCHANGED <<aState, aDone, aPc, aCur, aUsers, proxyVars, taskVars,
                  codecVars>>

\* the behaviour of the tests: Increment => count += 1, Add(n) => count += n,
\* Reset => count = 0
CounterBehavior(m, count) ==
    CASE m.op = "Increment" -> count + 1
      [] m.op = "Add" -> count + m.n
      [] m.op = "Reset" -> 0

\* process_one: if let Some(message) = self.receiver.recv().await
\* recv() returns None, and run_loop ends, when the channel is empty and every
\* sender of it has been dropped.
ActorRecv ==
    /\ aPc = "recv"
    /\ IF aQueue # <<>>
         THEN /\ aCur' = Dequeue(aQueue)[1]
              /\ aQueue' = Dequeue(aQueue)[2]
              /\ aPc' = "handle"
         ELSE /\ SendersAlive = 0
              /\ aPc' = "exited"
              /\ UNCHANGED <<aCur, aQueue>>
    /\ UNCHANGED <<aState, aSent, aDone, aUsers, proxyVars, taskVars, codecVars>>

\* let new_state = self.behavior.handle(message, state_clone).await;
\* self.state = new_state
ActorHandle ==
    /\ aPc = "handle"
    /\ aState' = CounterBehavior(aCur, aState)
    /\ aDone' = aDone + 1
    /\ aPc' = "recv"
    /\ UNCHANGED <<aQueue, aSent, aCur, aUsers, proxyVars, taskVars, codecVars>>

NextActor ==
    \/ \E m \in CounterMessages : ActorSend(m)
    \/ ActorRefClone
    \/ ActorRefDrop
    \/ ActorRecv
    \/ ActorHandle

SpecActor == Init /\ [][NextActor]_vars

\* the tokio runtime keeps polling the actor's task while it can make progress
FairSpecActor == SpecActor /\ WF_vars(ActorRecv \/ ActorHandle)


\* ------------------------------------------------- the codec, applied
\* proxy_remote_read_loop's handling of one datagram
CodecRelay ==
    /\ cx.op = "input" /\ cx.fn = "relay"
    /\ cx' = [op |-> "relayed", in |-> cx.in, port |-> cx.port,
              out |-> RelayBytes(cx.in, cx.port)]
    /\ UNCHANGED <<proxyVars, actorVars, taskVars>>

\* UnconnectedPong::from_bytes(x.build())
CodecPongRoundTrip ==
    /\ cx.op = "input" /\ cx.fn = "pong"
    /\ cx' = [op |-> "pong_decoded", in |-> cx.in, out |-> FromBytes(Build(cx.in))]
    /\ UNCHANGED <<proxyVars, actorVars, taskVars>>

\* PongData::from_string, pong.port4 = "25565", pong.into()
RewritePort4(payload, port) ==
    IntoString([FromString(payload) EXCEPT !.port4 = port])

CodecRewritePayload ==
    /\ cx.op = "input" /\ cx.fn = "payload"
    /\ cx' = [op |-> "rewritten", in |-> cx.in,
              out |-> RewritePort4(cx.in, T("25565"))]
    /\ UNCHANGED <<proxyVars, actorVars, taskVars>>

\* UnconnectedPing::from_bytes(buf), then build() of the result
PingRoundTrip(buf) ==
    LET r == PingFromBytes(buf)
    IN IF r.ok THEN [ok |-> TRUE, bytes |-> PingBuild(r.val)] ELSE r

CodecPingRoundTrip ==
    /\ cx.op = "input" /\ cx.fn = "ping"
    /\ cx' = [op |-> "ping_rebuilt", in |-> cx.in, out |-> PingRoundTrip(cx.in)]
    /\ UNCHANGED <<proxyVars, actorVars, taskVars>>

\* UnconnectedPing::from_bytes(buf)
CodecPingDecode ==
    /\ cx.op = "input" /\ cx.fn = "ping_decode"
    /\ cx' = [op |-> "ping_parsed", in |-> cx.in, out |-> PingFromBytes(cx.in)]
    /\ UNCHANGED <<proxyVars, actorVars, taskVars>>

\* UnconnectedPong::from_bytes(buf)
CodecPongDecode ==
    /\ cx.op = "input" /\ cx.fn = "pong_decode"
    /\ cx' = [op |-> "pong_parsed", in |-> cx.in, out |-> FromBytes(cx.in)]
    /\ UNCHANGED <<proxyVars, actorVars, taskVars>>

\* x.build() of an UnconnectedPing
CodecPingBuild ==
    /\ cx.op = "input" /\ cx.fn = "ping_build"
    /\ cx' = [op |-> "ping_built", in |-> cx.in, out |-> PingBuild(cx.in)]
    /\ UNCHANGED <<proxyVars, actorVars, taskVars>>

\* PongData::from_string(payload)
CodecFromString ==
    /\ cx.op = "input" /\ cx.fn = "from_string"
    /\ cx' = [op |-> "payload_parsed", in |-> cx.in, out |-> FromString(cx.in)]
    /\ UNCHANGED <<proxyVars, actorVars, taskVars>>

\* x.build() of an UnconnectedPong
CodecPongBuild ==
    /\ cx.op = "input" /\ cx.fn = "pong_build"
    /\ cx' = [op |-> "pong_built", in |-> cx.in, out |-> Build(cx.in)]
    /\ UNCHANGED <<proxyVars, actorVars, taskVars>>

NextCodec ==
    \/ CodecRelay
    \/ CodecPongRoundTrip
    \/ CodecRewritePayload
    \/ CodecPingRoundTrip
    \/ CodecPingDecode
    \/ CodecPongDecode
    \/ CodecPingBuild
    \/ CodecFromString
    \/ CodecPongBuild

InitCodecInputs == InitProxy /\ InitActor /\ InitTask /\ cx \in CodecInputs

SpecCodec == InitCodecInputs /\ [][NextCodec]_vars

\* ------------------------------------------- TokioTask and TaskManager
\* CancellationToken::cancel(): the token is cancelled from now on
ToggleToken(cancelled) == ~cancelled

CancelToken(cancelled) == TRUE

\* handle.await completes without waiting for the spawned task
JoinNeverWaits(t) == TRUE

\* handle.await completes once the spawned task has terminated
JoinReady(t) == tk[t].st = "done"

\* shutdown()'s first loop stops after one handle
CancelLoopDoneAfterOne(i, taken) == i > 1 \/ i > Len(taken)

\* for task in &tasks_to_cancel: the loop has visited every handle
CancelLoopDone(i, taken) == i > Len(taken)

\* cancel() calls made so far on the handles 1..n
RECURSIVE CancelCalls(_)
CancelCalls(n) == IF n = 0 THEN 0 ELSE tk[n].ncancel + CancelCalls(n - 1)

\* the owners of the handles may make one more cancel() call
MayCancel == CancelCalls(MaxTasks) < MaxCancels

\* TokioTask::spawn: a new token, tokio::spawn of select!{cancelled, f}; the
\* caller owns the handle. Tasks are alike: they are spawned in order.
Spawn(t) ==
    /\ tk[t].st = "none"
    /\ \A u \in Tasks : u < t => tk[u].st # "none"
    /\ tk' = [tk EXCEPT ![t].st = "running", ![t].owner = "user"]
    /\ UNCHANGED <<tmInner, tmLock, sd, sd2, proxyVars, actorVars, codecVars>>

\* guard.push(Box::new(task)) forgets the handle
PushLost(inner, t) == inner

\* guard.push(Box::new(task))
Push(inner, t) == Append(inner, t)

\* TaskManager::add_task: lock, push, and the guard is dropped on return; the
\* call waits while a shutdown() holds the guard
AddTask(t) ==
    /\ tk[t].owner = "user"
    /\ tmLock = 0
    /\ tk' = [tk EXCEPT ![t].owner = "manager"]
    /\ tmInner' = Push(tmInner, t)
    /\ UNCHANGED <<tmLock, sd, sd2, proxyVars, actorVars, codecVars>>

\* TokioTask::cancel, called by the owner of the handle
Cancel(t) ==
    /\ tk[t].owner = "user"
    /\ MayCancel
    /\ tk' = [tk EXCEPT ![t].cancelled = CancelToken(tk[t].cancelled),
                        ![t].ncancel = @ + 1,
                        ![t].late = IF tk[t].st = "done" THEN @ + 1 ELSE @]
    /\ UNCHANGED <<tmInner, tmLock, sd, sd2, proxyVars, actorVars, codecVars>>

\* select!: the inner future f finished normally
TaskFinishes(t) ==
    /\ tk[t].st = "running"
    /\ tk' = [tk EXCEPT ![t].st = "done", ![t].how = "finished"]
    /\ UNCHANGED <<tmInner, tmLock, sd, sd2, proxyVars, actorVars, codecVars>>

\* the spawned future is f alone: nothing in it waits for the token
TokenIgnored(t) == FALSE

\* the select! arm inner_token.cancelled() is ready
TokenReady(t) == tk[t].cancelled

\* select!: inner_token.cancelled() completed
TaskCancelled(t) ==
    /\ tk[t].st = "running"
    /\ TokenReady(t)
    /\ tk' = [tk EXCEPT ![t].st = "done", ![t].how = "cancelled"]
    /\ UNCHANGED <<tmInner, tmLock, sd, sd2, proxyVars, actorVars, codecVars>>

\* TokioTask::join, called by the owner: consumes the handle
JoinCall(t) ==
    /\ tk[t].owner = "user"
    /\ tk' = [tk EXCEPT ![t].owner = "joining"]
    /\ UNCHANGED <<tmInner, tmLock, sd, sd2, proxyVars, actorVars, codecVars>>

\* ... and returns when handle.await completes
JoinReturn(t) ==
    /\ tk[t].owner = "joining"
    /\ JoinReady(t)
    /\ tk' = [tk EXCEPT ![t].owner = "joined"]
    /\ UNCHANGED <<tmInner, tmLock, sd, sd2, proxyVars, actorVars, codecVars>>

\* the guard outlives the block: shutdown() keeps it while it cancels and joins
GuardKept(who) == who

\* the guard is dropped at the end of the block that takes the list
GuardDropped(who) == 0

\* std::mem::take copies the list and leaves it in place
TakeCopies(inner) == inner

\* std::mem::take(&mut *guard) leaves a brand-new Vec behind
LeftByTake(inner) == <<>>

\* the handles of the list now belong to the shutdown() that took it
TakenBy(inner) ==
    [t \in Tasks |-> IF \E k \in 1..Len(inner) : inner[k] = t
                     THEN [tk[t] EXCEPT !.owner = "shutdown"] ELSE tk[t]]

\* TaskManager::shutdown, step 1: self.inner.lock()
ShutdownLock ==
    /\ sd.pc \in {"idle", "returned"}
    /\ tmLock = 0
    /\ tmLock' = 1
    /\ sd' = [pc |-> "take", taken |-> <<>>, i |-> 0, joined |-> <<>>]
    /\ UNCHANGED <<tk, tmInner, sd2, proxyVars, actorVars, codecVars>>

\* ... std::mem::take under the lock, and the end of the block
ShutdownTake ==
    /\ sd.pc = "take"
    /\ sd' = [pc |-> "cancel", taken |-> tmInner, i |-> 1, joined |-> <<>>]
    /\ tmInner' = LeftByTake(tmInner)
    /\ tmLock' = GuardDropped(1)
    /\ tk' = TakenBy(tmInner)
    /\ UNCHANGED <<sd2, proxyVars, actorVars, codecVars>>

\* for task in &tasks_to_cancel { task.cancel() }
ShutdownCancel ==
    /\ sd.pc = "cancel"
    /\ IF CancelLoopDone(sd.i, sd.taken)
       THEN /\ sd' = [sd EXCEPT !.pc = "join", !.i = 1]
            /\ UNCHANGED tk
       ELSE /\ sd' = [sd EXCEPT !.i = @ + 1]
            /\ tk' = [tk EXCEPT ![sd.taken[sd.i]].cancelled = CancelToken(@),
                                ![sd.taken[sd.i]].ncancel = @ + 1,
                                ![sd.taken[sd.i]].late =
                                    IF tk[sd.taken[sd.i]].st = "done" THEN @ + 1 ELSE @]
    /\ UNCHANGED <<tmInner, tmLock, sd2, proxyVars, actorVars, codecVars>>

\* for task in tasks_to_cancel { task.join().await }, then return
ShutdownJoin ==
    /\ sd.pc = "join"
    /\ IF sd.i > Len(sd.taken)
       THEN /\ sd' = [sd EXCEPT !.pc = "returned"]
            /\ UNCHANGED tk
       ELSE /\ JoinReady(sd.taken[sd.i])
            /\ sd' = [sd EXCEPT !.i = @ + 1, !.joined = Append(@, sd.taken[sd.i])]
            /\ tk' = [tk EXCEPT ![sd.taken[sd.i]].owner = "reaped"]
    /\ UNCHANGED <<tmInner, tmLock, sd2, proxyVars, actorVars, codecVars>>

ShutdownStep == ShutdownCancel \/ ShutdownJoin

NextTask ==
    \/ \E t \in Tasks : Spawn(t)
    \/ \E t \in Tasks : AddTask(t)
    \/ \E t \in Tasks : Cancel(t)
    \/ \E t \in Tasks : TaskFinishes(t)
    \/ \E t \in Tasks : TaskCancelled(t)
    \/ \E t \in Tasks : JoinCall(t)
    \/ \E t \in Tasks : JoinReturn(t)
    \/ ShutdownLock
    \/ ShutdownTake
    \/ ShutdownCancel
    \/ ShutdownJoin

SpecTask == Init /\ [][NextTask]_vars

\* ---------------------------- shutdown() on a clone of the TaskManager
\* The clone shares inner (Arc); its caller is the one that starts second.
Shutdown2Lock ==
    /\ sd2.pc \in {"idle", "returned"}
    /\ sd.pc # "idle"
    /\ tmLock = 0
    /\ tmLock' = 2
    /\ sd2' = [pc |-> "take", taken |-> <<>>, i |-> 0, joined |-> <<>>]
    /\ UNCHANGED <<tk, tmInner, sd, proxyVars, actorVars, codecVars>>

Shutdown2Take ==
    /\ sd2.pc = "take"
    /\ sd2' = [pc |-> "cancel", taken |-> tmInner, i |-> 1, joined |-> <<>>]
    /\ tmInner' = LeftByTake(tmInner)
    /\ tmLock' = GuardDropped(2)
    /\ tk' = TakenBy(tmInner)
    /\ UNCHANGED <<sd, proxyVars, actorVars, codecVars>>

Shutdown2Cancel ==
    /\ sd2.pc = "cancel"
    /\ IF CancelLoopDone(sd2.i, sd2.taken)
       THEN /\ sd2' = [sd2 EXCEPT !.pc = "join", !.i = 1]
            /\ UNCHANGED tk
       ELSE /\ sd2' = [sd2 EXCEPT !.i = @ + 1]
            /\ tk' = [tk EXCEPT ![sd2.taken[sd2.i]].cancelled = CancelToken(@),
                                ![sd2.taken[sd2.i]].ncancel = @ + 1,
                                ![sd2.taken[sd2.i]].late =
                                    IF tk[sd2.taken[sd2.i]].st = "done" THEN @ + 1 ELSE @]
    /\ UNCHANGED <<tmInner, tmLock, sd, proxyVars, actorVars, codecVars>>

Shutdown2Join ==
    /\ sd2.pc = "join"
    /\ IF sd2.i > Len(sd2.taken)
       THEN /\ sd2' = [sd2 EXCEPT !.pc = "returned"]
            /\ UNCHANGED tk
       ELSE /\ JoinReady(sd2.taken[sd2.i])
            /\ sd2' = [sd2 EXCEPT !.i = @ + 1, !.joined = Append(@, sd2.taken[sd2.i])]
            /\ tk' = [tk EXCEPT ![sd2.taken[sd2.i]].owner = "reaped"]
    /\ UNCHANGED <<tmInner, tmLock, sd, proxyVars, actorVars, codecVars>>

\* the handles are registered with the manager, which two callers shut down
NextClones ==
    \/ \E t \in Tasks : Spawn(t)
    \/ \E t \in Tasks : AddTask(t)
    \/ \E t \in Tasks : TaskFinishes(t)
    \/ \E t \in Tasks : TaskCancelled(t)
    \/ ShutdownLock
    \/ ShutdownTake
    \/ ShutdownCancel
    \/ ShutdownJoin
    \/ Shutdown2Lock
    \/ Shutdown2Take
    \/ Shutdown2Cancel
    \/ Shutdown2Join

SpecClones == Init /\ [][NextClones]_vars

\* --------------------------------------- a TokioTask owned by its spawner
NextTokioTask ==
    \/ \E t \in Tasks : Spawn(t)
    \/ \E t \in Tasks : Cancel(t)
    \/ \E t \in Tasks : TaskFinishes(t)
    \/ \E t \in Tasks : TaskCancelled(t)
    \/ \E t \in Tasks : JoinCall(t)
    \/ \E t \in Tasks : JoinReturn(t)

SpecTokioTask == Init /\ [][NextTokioTask]_vars

\* The runtime polls a spawned task that was woken (the token's waker, the
\* JoinHandle's waker); nothing obliges the inner future f to finish.
FairSpecTokioTask ==
    /\ SpecTokioTask
    /\ \A t \in Tasks : WF_vars(TaskCancelled(t))
    /\ \A t \in Tasks : WF_vars(JoinReturn(t))

\* ===================================================================== C1
\* the tasks of run l: its two listening-socket readers, its Router actor
\* and the per-client readers that Router spawned
RunTasksStopped(l) ==
    /\ \A s \in Socks : rd[<<l, s>>] # "running"
    /\ apc[l] \notin {"recv", "handle"}
    /\ \A k \in 1..Len(crd) : crd[k].router = l => crd[k].st # "running"

\* C1: once the shutdown sequence of a run has completed (its listen()
\* returned Ok), none of the run's tasks is still running: not the two
\* listening-socket readers, not the Router actor, not any per-client reader.
C1_NoTaskRunsAfterShutdown ==
    \A l \in Listeners : lpc[l] = "ret_Ok" => RunTasksStopped(l)

\* ===================================================================== C2
\* the upstream sockets Router l created for client c
SocketsOf(l, c) ==
    { u \in 1..Len(ups) : ups[u].router = l /\ ups[u].client = c }

\* the reader tasks spawned for upstream socket u, and those still running
ReadersOf(u) == { k \in 1..Len(crd) : crd[k].to_server = u }
RunningReadersOf(u) == { k \in ReadersOf(u) : crd[k].st = "running" }

\* C2 (amended): a Router creates at most one upstream socket per client
\* address, a mapped client address maps to the socket created for it, and
\* exactly one reader task is ever spawned for each upstream socket, so the
\* socket is never read by two tasks.
C2_OneSocketOneReaderPerClient ==
    /\ \A l \in Listeners, c \in Clients :
          /\ Cardinality(SocketsOf(l, c)) <= 1
          /\ client_map[l][c] # 0 => client_map[l][c] \in SocketsOf(l, c)
    /\ \A u \in 1..Len(ups) :
          /\ Cardinality(ReadersOf(u)) = 1
          /\ Cardinality(RunningReadersOf(u)) <= 1

\* C2 witness: a Router has sent two different packets of one client to the
\* server, both from the one upstream socket the client is mapped to.
C2_Witness ==
    \E l \in Listeners, c \in Clients :
        /\ client_map[l][c] # 0
        /\ \E x, y \in atServer :
              /\ x # y
              /\ x.from = client_map[l][c]
              /\ y.from = client_map[l][c]

\* C2 as stated: at every instant the upstream socket of a mapped client
\* address is read by exactly one running reader task.
C2_ExactlyOneReaderAlways ==
    /\ C2_OneSocketOneReaderPerClient
    /\ \A l \in Listeners, c \in Clients :
          client_map[l][c] # 0 =>
              Cardinality(RunningReadersOf(client_map[l][c])) = 1

\* ===================================================================== C3
\* C3: two distinct client addresses mapped by one Router have distinct
\* upstream sockets, and a datagram read from an upstream socket is relayed
\* to the client that socket was created for, carrying the server's answer to
\* that client's traffic: never to the other client.
C3_ClientsIsolated ==
    /\ \A l \in Listeners : \A c, d \in Clients :
          (c # d /\ client_map[l][c] # 0 /\ client_map[l][d] # 0)
              => client_map[l][c] # client_map[l][d]
    /\ \A x \in delivered :
          /\ x.to = ups[x.from].client
          /\ x.data.src = x.to

\* C3 witness: one Router has both clients mapped, and the second client got
\* a datagram relayed.
C3_Witness ==
    \E l \in Listeners :
        /\ client_map[l]["c1"] # 0
        /\ client_map[l]["c2"] # 0
        /\ \E x \in delivered : x.to = "c2"

\* ===================================================================== C4
\* the handler applied to the messages of a sequence in turn, from count
RECURSIVE ApplyAll(_, _)
ApplyAll(msgs, count) ==
    IF msgs = <<>> THEN count
    ELSE ApplyAll(Tail(msgs), CounterBehavior(Head(msgs), count))

\* C4: after the actor has handled n messages its state is the handler
\* applied to the first n messages sent, in the order they were sent,
\* starting from the initial state.
C4_HandledInEnqueueOrder ==
    aState = ApplyAll(SubSeq(aSent, 1, aDone), 0)

\* C4 witness: three messages whose order decides the result (Add, Reset,
\* Increment) have all been handled.
C4_Witness ==
    /\ aDone = 3
    /\ aSent[1].op = "Add" /\ aSent[2].op = "Reset" /\ aSent[3].op = "Increment"
    /\ aState = 1

\* ===================================================================== C5
\* C5: an actor never has two handler invocations in progress; a message is
\* dequeued only when no invocation is in progress; and the routing table
\* changes only in the step that completes an invocation.
C5_Step ==
    \A l \in Listeners :
        /\ inflight'[l] <= 1
        /\ inflight'[l] > inflight[l] => inflight[l] = 0
        /\ client_map'[l] # client_map[l] =>
              /\ apc[l] = "handle" /\ apc'[l] = "recv"
              /\ inflight[l] = 1 /\ inflight'[l] = 0

C5_OneHandlerAtATime == [][C5_Step]_vars

\* C5 witness: a message waits in the mailbox while the one handler
\* invocation in progress is running.
C5_Witness ==
    \E l \in Listeners :
        /\ apc[l] = "handle"
        /\ mailbox[l] # <<>>
        /\ inflight[l] = 1

\* ===================================================================== C6
\* what a listen() call works on: the sockets, the reader tasks, the Router
ListenResources == <<tasks, tasksLock, sig, rd, inq, apc, mailbox, cur,
                     client_map, ups, crd>>

\* C6 (amended): at most one listen() call is between its compare_exchange
\* and running.store(false); a call passes the compare_exchange only when
\* running is false; and a call that finds running true returns
\* AlreadyRunning and changes neither running nor any socket, task or Router.
C6_Step ==
    /\ Cardinality({ l \in Listeners : lpc'[l] \in BeforeStore }) <= 1
    /\ \A l \in Listeners : (lpc[l] = "idle" /\ lpc'[l] # "idle") => ~running
    /\ nrejected' # nrejected =>
          /\ running
          /\ UNCHANGED <<running, lpc, ListenResources>>

C6_ListenExcludesListen == [][C6_Step]_vars

\* C6 witness: a listen() call has returned AlreadyRunning while the call
\* that set running is still before its store.
C6_Witness ==
    /\ nrejected > 0
    /\ \E l \in Listeners : lpc[l] \in BeforeStore

\* C6 as stated: at most one listen() call is past the running check at a
\* time.
C6_OneCallPastCheck ==
    Cardinality({ l \in Listeners : lpc[l] \in InListen }) <= 1

\* ===================================================================== C7
\* the numbers a call of one kind can have
CallIds == 1..MaxInputs

\* wait() call w found a run Listening, and that run's shutdown sequence has
\* completed: its listen() returned Ok
WaitedRunIsOver(w) ==
    IF w \in DOMAIN wpc /\ wrun[w] # 0 THEN lpc[wrun[w]] = "ret_Ok" ELSE FALSE

WaitReturned(w) == IF w \in DOMAIN wpc THEN wpc[w] = "ret" ELSE FALSE

\* C7: a wait() call made while a run was Listening returns once the
\* shutdown sequence of that run has completed.
C7_WaitersReturnAfterShutdown ==
    \A w \in CallIds : WaitedRunIsOver(w) ~> WaitReturned(w)

\* ===================================================================== C8
\* shutdown() call s was made while a run was Listening (running true)
ShutdownWhileListening(s) == IF s \in DOMAIN srun THEN srun[s] # 0 ELSE FALSE

\* the run that shutdown() call s found Listening has executed
\* running.store(false), and both of its listening-socket reader tasks have
\* terminated
StoppedAfter(s) ==
    IF s \in DOMAIN srun /\ srun[s] # 0
    THEN /\ lpc[srun[s]] \in AfterStore
         /\ \A k \in Socks : rd[<<srun[s], k>>] = "done"
    ELSE FALSE

\* C8: a shutdown() call made while the instance is Listening is followed
\* by the instance being Stopped with both listening-socket reader tasks
\* terminated.
C8_ShutdownLeadsToStopped ==
    \A s \in CallIds : ShutdownWhileListening(s) ~> StoppedAfter(s)

\* ===================================================================== C9
\* C9: once a Router actor's processing loop has terminated, none of the
\* per-client reader tasks that Router spawned is still running.
C9_NoReaderOutlivesRouter ==
    \A l \in Listeners :
        apc[l] = "panicked" =>
            \A k \in 1..Len(crd) : crd[k].router = l => crd[k].st # "running"

\* ==================================================================== C10
\* C10: a datagram that is neither a ping nor a pong and that the server
\* echoed reaches the client with the bytes the client sent: all of them.
C10_RoundTripKeepsBytes ==
    \A x \in delivered :
        x.data.kind = "other" => x.data.len = x.data.olen

\* ==================================================================== C11
\* the fields of a pong other than port4
OtherFields == { FieldNames[i] : i \in 1..Len(FieldNames) } \ {"port4"}

TakenSet == { sd.taken[k] : k \in 1..Len(sd.taken) }

C12_Step ==
    \* the take empties the list and hands every handle to the caller
    /\ (sd.pc = "take" /\ sd'.pc = "cancel") =>
           (sd'.taken = tmInner /\ tmInner' = <<>>)
    \* a join completes only when every taken handle has been cancelled, and
    \* the joins complete in list order
    /\ Len(sd'.joined) > Len(sd.joined) =>
           /\ \A t \in TakenSet : tk[t].cancelled
           /\ sd'.joined = SubSeq(sd.taken, 1, Len(sd'.joined))
    \* it returns with every taken task terminated
    /\ (sd.pc # "returned" /\ sd'.pc = "returned") =>
           /\ sd'.joined = sd.taken
           /\ \A t \in TakenSet : tk'[t].st = "done"
    \* with no handle taken, no step of it waits
    /\ (sd'.pc \in {"cancel", "join"} /\ sd'.taken = <<>>) => (ENABLED ShutdownStep)'

\* C12: TaskManager::shutdown() takes every handle out of the list in one
\* step, cancels all of them before it joins any, joins them in list order
\* and returns only when all of them have terminated; with no handle in the
\* list it returns without waiting.
C12_ShutdownCancelsAllThenJoinsInOrder == [][C12_Step]_vars

\* a second shutdown() returned with nothing to take after the first one
\* cancelled and joined MaxTasks handles
C12_Witness ==
    /\ sd.pc = "returned"
    /\ sd.taken = <<>>
    /\ \A t \in Tasks : tk[t].owner = "reaped" /\ tk[t].ncancel = 1

\* ---------------------------------------------------------------- C13
\* C13: join() has returned only if the spawned task has terminated, whether
\* cancel() was called on the handle or not.
C13_JoinReturnsAfterTaskStopped ==
    \A t \in Tasks : tk[t].owner \in {"joined", "reaped"} => tk[t].st = "done"

\* one join() returned for a task never cancelled, another for a task that
\* stopped because it was cancelled
C13_Witness ==
    \E t, u \in Tasks :
        /\ tk[t].owner = "joined" /\ ~tk[t].cancelled /\ tk[t].how = "finished"
        /\ tk[u].owner = "joined" /\ tk[u].cancelled /\ tk[u].how = "cancelled"

\* ---------------------------------------------------------------- C14
\* a cancel() call on the handle of t happened in this step
CancelCalled(t) == tk'[t].ncancel = tk[t].ncancel + 1

C14_Step ==
    \A t \in Tasks : CancelCalled(t) =>
        \* the token is cancelled afterwards, and nothing else of the task changes
        /\ tk'[t].cancelled
        /\ tk'[t].st = tk[t].st /\ tk'[t].how = tk[t].how /\ tk'[t].owner = tk[t].owner
        \* a call after the first changes nothing but the count of calls
        /\ tk[t].ncancel >= 1 => tk'[t].cancelled = tk[t].cancelled
        \* the call does not wait: the owner may call again at once
        /\ (tk'[t].owner = "user" /\ MayCancel') => (ENABLED Cancel(t))'

\* C14: cancel() is idempotent and does not block: the first call cancels the
\* token, every later call leaves the task and its token as they were,
\* whether the task is still running or has finished.
C14_CancelIdempotent == [][C14_Step]_vars

\* the owner called cancel() on a running task, and again after the task
\* had terminated
C14_Witness ==
    \E t \in Tasks : tk[t].ncancel = 2 /\ tk[t].late = 1 /\ tk[t].cancelled

\* ---------------------------------------------------------------- C15
\* C15: a listen() that returned InvalidAddress or FailedToBind, the case of
\* a first socket bound and a second bind failed included, leaves none of
\* its listening sockets open, no reader task and no Router of its own.
C15_FailedListenLeavesNothing ==
    \A l \in Listeners : lpc[l] \in FailedListen =>
        /\ \A s \in Socks : ~SockOpen(<<l, s>>) /\ rd[<<l, s>>] = "none"
        /\ apc[l] = "none"
        /\ \A k \in 1..Len(tasks) : tasks[k][1] # l

\* the broadcast socket was bound, the bind of the proxy socket failed and
\* listen() returned FailedToBind
C15_Witness ==
    \E l \in Listeners :
        /\ lpc[l] = "ret_FailedToBindProxy"
        /\ \A s \in Socks : ~SockOpen(<<l, s>>)

\* ---------------------------------------------------------------- C16
\* the state of the ProxyInstance and of the Router actors
InstanceAndRouters ==
    <<running, lpc, nrejected, spc, srun, wpc, wrun, tasks, tasksLock,
      apc, mailbox, cur, inflight, client_map>>

\* listening-socket reader p ends in this step without handing a message
\* to the Router: recv_from returned Err (or the task left its loop for the
\* shutdown signal)
ListeningReaderStops(p) ==
    rd[p] = "running" /\ rd'[p] = "done" /\ mailbox' = mailbox

\* per-client reader k ends in this step: recv_from returned Err or
\* send_to failed
ClientReaderStops(k) ==
    k \in DOMAIN crd /\ crd[k].st = "running" /\ crd'[k].st = "done"

C16_Step ==
    /\ \A p \in Ports : ListeningReaderStops(p) =>
          /\ \A q \in Ports \ {p} :
                rd'[q] = rd[q] /\ inq'[q] = inq[q]
                /\ (<<"rd", q>> \in sig') = (<<"rd", q>> \in sig)
          /\ crd' = crd /\ ups' = ups
          /\ InstanceAndRouters' = InstanceAndRouters
    /\ \A k \in DOMAIN crd : ClientReaderStops(k) =>
          /\ \A j \in DOMAIN crd \ {k} :
                crd'[j] = crd[j] /\ ups'[crd[j].to_server] = ups[crd[j].to_server]
          /\ DOMAIN crd' = DOMAIN crd
          /\ rd' = rd /\ inq' = inq /\ sig' = sig
          /\ InstanceAndRouters' = InstanceAndRouters

\* C16: a socket I/O failure inside a reader task (of a listening socket or
\* of a client) ends that task only: the other listening reader, the other
\* clients' readers, the Router and the ProxyInstance are as they were.
C16_ReaderFailureIsLocal == [][C16_Step]_vars

\* a client's datagram came in on the broadcast socket; later the client's
\* reader failed and so did the reader of the proxy socket, which never
\* received a datagram or a shutdown signal; the Router and listen() go on
C16_Witness ==
    \E l \in Listeners :
        /\ spc = <<>> /\ nsent = 1
        /\ Len(crd) = 1 /\ crd[1].to_client = <<l, "broadcast">> /\ crd[1].st = "done"
        /\ rd[<<l, "proxy">>] = "done"
        /\ apc[l] = "recv" /\ running /\ lpc[l] = "recv"

\* ---------------------------------------------------------------- C17
\* C17: once the users of the actor have dropped every sender handle, the
\* run loop handles the messages still queued and then exits.
C17_ClosedMailboxLeadsToExit ==
    (aUsers = 0) ~> (aPc = "exited" /\ aQueue = <<>> /\ aDone = Len(aSent))

\* ---------------------------------------------------------------- C18
\* the parts joined again with ';' between them: the inverse of Split
RECURSIVE JoinParts(_)
JoinParts(parts) ==
    IF Len(parts) = 1 THEN Head(parts)
    ELSE Cat(Cat(Head(parts), Semi), JoinParts(Tail(parts)))

\* the payload with the text of its port4 field replaced
WithPort4(payload, port) ==
    JoinParts([Split(payload) EXCEPT ![FieldIndex("port4")] = port])

\* C18: decoding the captured payload, setting port4 to "25565" and encoding
\* again yields the captured payload with "25565" in its port4 field and
\* nothing else changed.
C18_LiteralRewriteKeepsRest ==
    (cx.op = "rewritten" /\ cx.in = LiteralPayload) =>
        cx.out = WithPort4(cx.in, T("25565"))

\* ---------------------------------------------------------------- C19
\* none of the twelve fields of x holds a ';'
NoSemicolon(x) == \A f \in DOMAIN x.pong : ~HasSemi(x.pong[f])

\* C19: for every pong whose twelve fields hold no ';', decoding what
\* build() produced succeeds and yields the same ping_time, server_guid,
\* magic and twelve fields.
C19_PongRoundTrip ==
    (cx.op = "pong_decoded" /\ NoSemicolon(cx.in)) =>
        /\ cx.out.ok
        /\ cx.out.val.ping_time = cx.in.ping_time
        /\ cx.out.val.server_guid = cx.in.server_guid
        /\ cx.out.val.magic = cx.in.magic
        /\ \A f \in DOMAIN cx.in.pong : cx.out.val.pong[f] = cx.in.pong[f]

\* ---------------------------------------------------------------- C20
\* a buffer of 25 bytes that starts with 0x01 and carries MAGIC
IsPing25(b) ==
    /\ BLen(b) = PingLen
    /\ Take(b, 1) = Byte(PingId)
    /\ Drop(b, 1 + TimeLen) = Magic

\* C20: for every buffer of 25 bytes with packet id 0x01 and the fixed magic,
\* from_bytes succeeds and build() of its result is the same 25 bytes.
C20_PingRoundTripKeepsBytes ==
    (cx.op = "ping_rebuilt" /\ IsPing25(cx.in)) =>
        (cx.out.ok /\ cx.out.bytes = cx.in)


\* ---------------------------------------------------------------- C21
\* the result is an Err value: not Ok, and not a panic
IsDecodeFailure(r) == ~r.ok /\ "panic" \notin DOMAIN r

\* C21: from_bytes of a ping on fewer than 25 bytes, and of a pong on fewer
\* than 35 bytes, returns a decode failure for every such buffer, the empty
\* one included, and does not panic.
C21_ShortBuffersFailToDecode ==
    /\ (cx.op = "ping_parsed" /\ BLen(cx.in) < PingLen) => IsDecodeFailure(cx.out)
    /\ (cx.op = "pong_parsed" /\ BLen(cx.in) < PongMinLen) => IsDecodeFailure(cx.out)

\* a buffer of 34 bytes that starts with 0x1c was refused as a pong
C21_Witness ==
    /\ cx.op = "pong_parsed"
    /\ BLen(cx.in) = PongMinLen - 1
    /\ Take(cx.in, 1) = Byte(PongId)
    /\ IsDecodeFailure(cx.out)

\* ---------------------------------------------------------------- C22
\* C22: from_bytes of a ping succeeds on every buffer of at least 25 bytes
\* that starts with 0x01, with ping_time = bytes 1..8 and magic = bytes
\* 9..24, and fails on every other buffer.
C22_PingDecodesFrom25Bytes ==
    cx.op = "ping_parsed" =>
        IF BLen(cx.in) >= PingLen /\ Take(cx.in, 1) = Byte(PingId)
        THEN /\ cx.out.ok
             /\ cx.out.val.ping_time = Take(Drop(cx.in, 1), TimeLen)
             /\ cx.out.val.magic = Take(Drop(cx.in, 1 + TimeLen), MagicLen)
        ELSE IsDecodeFailure(cx.out)

\* ---------------------------------------------------------------- C23
\* the layout of a built ping: 0x01, ping_time, the magic field, client_id
PingLayout(x, b) ==
    /\ Take(b, 1) = Byte(PingId)
    /\ Take(Drop(b, 1), TimeLen) = x.ping_time
    /\ Take(Drop(b, 1 + TimeLen), MagicLen) = x.magic
    /\ Drop(b, 1 + TimeLen + MagicLen) = x.client_id

\* C23 (as amended): build() of any ping produces 33 bytes: packet id 0x01,
\* then ping_time, then the 16 bytes of the ping's magic field (the constant
\* for a ping made by new()), then the 8 bytes of client_id.
C23_PingBuildIs33Bytes ==
    cx.op = "ping_built" =>
        /\ PingLayout(cx.in, cx.out)
        /\ BLen(cx.out) = 1 + TimeLen + MagicLen + TimeLen

\* a ping that carries MAGIC was built
C23_Witness ==
    /\ cx.op = "ping_built"
    /\ cx.in.magic = Magic
    /\ cx.in.client_id = Rep("cid", TimeLen)
    /\ BLen(cx.out) > PingLen

\* C23 (as stated): build() of any ping produces exactly 25 bytes: 0x01,
\* ping_time, the magic constant, client_id.
C23_PingBuildIs25Bytes ==
    cx.op = "ping_built" =>
        /\ PingLayout([cx.in EXCEPT !.magic = Magic], cx.out)
        /\ BLen(cx.out) = PingLen

\* ---------------------------------------------------------------- C24
\* the payload length a buffer declares, and the bytes after the length field
DeclaredLen(b) == U16Value(Take(Drop(b, PongMinLen - 2), 2))
AfterHeader(b) == Drop(b, PongMinLen)

\* some byte of b is binary data, not text
HoldsBinary(b) == \E i \in 1..Len(b) : b[i].s = "binary"

\* one of the four cases in which a buffer is not a pong
NotAPong(b) ==
    \/ BLen(b) < PongMinLen
    \/ Take(b, 1) # Byte(PongId)
    \/ DeclaredLen(b) > BLen(AfterHeader(b))
    \/ HoldsBinary(Take(AfterHeader(b), DeclaredLen(b)))

\* C24: from_bytes of a pong returns a decode failure, without a panic, when
\* the buffer has fewer than 35 bytes, does not start with 0x1c, declares
\* more payload than follows, or holds a payload that is not UTF-8; on every
\* other buffer, one that declares an empty payload included, it returns a
\* pong.
C24_PongDecodeFailsInFourCases ==
    cx.op = "pong_parsed" =>
        IF NotAPong(cx.in) THEN IsDecodeFailure(cx.out) ELSE cx.out.ok

\* a 35-byte buffer that declares an empty payload decoded to a pong
C24_Witness ==
    /\ cx.op = "pong_parsed"
    /\ cx.in = PongPacket(Rep("time", TimeLen), 0, <<>>)
    /\ cx.out.ok
    /\ cx.out.val.pong.edition = <<>>

\* ---------------------------------------------------------------- C25
\* the number of fields of a payload in wire format: each is followed by ';'
NumFields(b) == Cardinality({ i \in 1..Len(b) : b[i].s = ";" })

\* C25: from_string of a payload of k fields, each followed by ';', sets the
\* first k fields (the first twelve when k > 12) from the payload and leaves
\* every other field at its default.
C25_MissingFieldsKeepDefaults ==
    cx.op = "payload_parsed" =>
        \A i \in 1..Len(FieldNames) :
            cx.out[FieldNames[i]] =
                IF i <= NumFields(cx.in) THEN Split(cx.in)[i]
                ELSE PongDataDefault[FieldNames[i]]

\* ---------------------------------------------------------------- C26
\* C26: a listen() that failed with InvalidAddress or FailedToBind leaves
\* the instance Stopped: is_running is false when it has returned, so a later
\* listen() is not rejected and wait() returns at once.
C26_FailedListenLeavesStopped ==
    \A l \in Listeners :
        (lpc[l] \in FailedListen /\ \A k \in Listeners : k > l => lpc[k] = "idle")
            => ~running

\* ---------------------------------------------------------------- C27
\* listening-socket reader p hands a message to its Router in this step
ReaderEnqueues(p) ==
    /\ rd[p] = "running"
    /\ Len(mailbox'[p[1]]) = Len(mailbox[p[1]]) + 1
    /\ mailbox'[p[1]][Len(mailbox'[p[1]])].to_client = p

C27_Step == \A p \in Ports : ReaderEnqueues(p) => rd'[p] = "running"

\* C27: a listening-socket reader task stays alive across datagrams: it
\* enqueues every datagram it receives and does not stop because it has
\* handled one.
C27_ReaderSurvivesDatagram == [][C27_Step]_vars

\* ---------------------------------------------------------------- C28
\* the listening socket through which the replies to the traffic of upstream
\* socket u are relayed: the to_client of the task that reads u
ReplySocket(u) ==
    LET k == CHOOSE j \in 1..Len(crd) : crd[j].to_server = u
    IN crd[k].to_client

\* C28: the reply to a packet leaves through the listening socket the packet
\* was received on: while the Router handles a packet of a client that has
\* an upstream socket, the replies read from that socket are relayed through
\* the socket the packet came in on.
C28_ReplyLeavesThroughReceivingSocket ==
    \A l \in Listeners :
        (apc[l] = "handle" /\ client_map[l][cur[l].client_addr] # 0) =>
            ReplySocket(client_map[l][cur[l].client_addr]) = cur[l].to_client

\* ---------------------------------------------------------------- C29
\* the Router of l completes the handling of a message in this step
HandlerCompletes(l) == apc[l] = "handle" /\ apc'[l] = "recv"

C29_Step ==
    \A l \in Listeners : HandlerCompletes(l) =>
        LET m == cur[l]
            u == client_map'[l][m.client_addr]
        IN /\ u # 0
           /\ ups'[u].client = m.client_addr /\ ups'[u].router = l
           /\ [from |-> u, data |-> m.data] \in atServer'
           /\ atServer' \ atServer \subseteq {[from |-> u, data |-> m.data]}

\* C29: every packet-from-client message the Router handles results in one
\* datagram to the remote server, carrying the message's payload unchanged
\* and sent from the upstream socket of the message's client address, never
\* from another client's socket.
C29_OneForwardPerMessage == [][C29_Step]_vars

\* the packets of two clients are at the server, each sent from the socket
\* of its own client
C29_Witness ==
    \E x, y \in atServer :
        /\ x.data.src = "c1" /\ ups[x.from].client = "c1"
        /\ y.data.src = "c2" /\ ups[y.from].client = "c2"
        /\ x.from # y.from

\* ---------------------------------------------------------------- C30
C30_Step ==
    \A l \in Listeners : \A c \in Clients :
        client_map[l][c] # 0 => client_map'[l][c] = client_map[l][c]

\* C30: a handler invocation leaves every existing entry of the routing table
\* as it was: the table only grows, no entry is removed and the upstream
\* socket of a client address is not replaced by a later packet from that
\* address; the proxy port handed to the readers does not change.
C30_RoutingTableOnlyGrows ==
    [][C30_Step /\ \A k \in DOMAIN crd :
           /\ k \in DOMAIN crd'
           /\ crd'[k].proxy_port = crd[k].proxy_port
           /\ crd[k].proxy_port = ProxyPort(crd[k].router)]_vars

\* a Router has handled a second packet of a client it had mapped, and the
\* client's entry is the socket bound for its first packet
C30_Witness ==
    \E l \in Listeners :
        /\ client_map[l]["c1"] = 1 /\ Len(ups) = 1 /\ Len(crd) = 1
        /\ apc[l] = "recv" /\ mailbox[l] = <<>> /\ nsent = 2
        /\ rd[<<l, "broadcast">>] = "done" /\ rd[<<l, "proxy">>] = "done"
        /\ Cardinality({ x \in atServer : x.from = 1 }) = 2

\* ---------------------------------------------------------------- C31
\* shutdown() is past the block that takes the list and has not returned
ShutdownInProgress == sd.pc \in {"cancel", "join"}

\* C31: the TaskManager's lock is held by shutdown() only between its lock()
\* and the take: never while it cancels or waits on a join, so an add_task()
\* made during an in-progress shutdown is not made to wait.
C31_LockNotHeldAcrossJoin ==
    /\ tmLock = 1 => sd.pc = "take"
    /\ ShutdownInProgress =>
           /\ tmLock = 0
           /\ \A t \in Tasks : tk[t].owner = "user" => ENABLED AddTask(t)

\* shutdown() waits on the join of a task that still runs, and a handle was
\* added to the list after the take
C31_Witness ==
    /\ sd.pc = "join"
    /\ sd.taken = <<1>>
    /\ sd.i = 1
    /\ tk[1].st = "running"
    /\ tmInner = <<2>>

\* ---------------------------------------------------------------- C36
\* the number of places of the sequence q that hold the handle t
Holds(q, t) == Cardinality({ k \in 1..Len(q) : q[k] = t })

\* C36: with two shutdown() calls running on clones of one TaskManager, every
\* registered handle is in the list or in the tasks_to_cancel of exactly one
\* of the calls, never in both and never twice; a handle a call took is not
\* left in the list, the two calls join disjoint handles, and a call returns
\* having joined exactly the handles it took.
C36_EachHandleTakenOnce ==
    /\ \A t \in Tasks :
           /\ Holds(tmInner, t) + Holds(sd.taken, t) + Holds(sd2.taken, t) <= 1
           /\ tk[t].owner = "manager" <=> Holds(tmInner, t) = 1
           /\ tk[t].owner = "shutdown" =>
                  Holds(sd.taken, t) + Holds(sd2.taken, t) = 1
           /\ Holds(sd.joined, t) + Holds(sd2.joined, t) <= 1
           /\ Holds(sd.joined, t) + Holds(sd2.joined, t) = 1 => tk[t].owner = "reaped"
    /\ sd.pc = "returned" => sd.joined = sd.taken
    /\ sd2.pc = "returned" => sd2.joined = sd2.taken

\* both calls wait on their first join, each with a handle of its own
C36_Witness ==
    /\ sd.pc = "join" /\ sd2.pc = "join"
    /\ sd.taken = <<1>> /\ sd2.taken = <<2>>
    /\ sd.joined = <<>> /\ sd2.joined = <<>>

\* ---------------------------------------------------------------- C38
C38_Step ==
    /\ \A t \in Tasks :
           \* a registered handle stays in the list, untouched by a shutdown()
           \* that took the list before it was added, until a shutdown() takes it
           /\ tk[t].owner = "manager" =>
                  \/ /\ tk'[t].owner = "manager"
                     /\ tk'[t].cancelled = tk[t].cancelled
                     /\ tk'[t].ncancel = tk[t].ncancel
                     /\ Holds(sd'.taken, t) = 0
                  \/ /\ sd.pc = "take" /\ sd'.pc = "cancel"
                     /\ tk'[t].owner = "shutdown"
                     /\ Holds(sd'.taken, t) = 1
           \* no handle given to the manager is lost
           /\ (tk'[t].owner = "manager" => Holds(tmInner', t) = 1)
           /\ (tk'[t].owner = "shutdown" =>
                  /\ sd'.pc \in {"cancel", "join"}
                  /\ Holds(sd'.taken, t) = 1)
           /\ (tk'[t].owner = "reaped" => tk'[t].cancelled /\ tk'[t].st = "done")
    \* the shutdown() that took a handle returns with it cancelled and joined
    /\ (sd.pc # "returned" /\ sd'.pc = "returned") =>
           \A k \in 1..Len(sd.taken) :
               /\ tk'[sd.taken[k]].cancelled
               /\ tk'[sd.taken[k]].owner = "reaped"

\* C38: a handle added after a running shutdown() took the list is not
\* cancelled and not joined by that call and stays in the list; the next
\* shutdown() takes it, and returns with it cancelled and joined; no handle
\* given to the manager leaves it otherwise.
C38_LateTaskKeptForNextShutdown == [][C38_Step]_vars

\* a shutdown() has joined the handle it took and is about to return; the
\* handle added after its take is in the list, never cancelled
C38_Witness ==
    /\ sd.pc = "join"
    /\ sd.taken = <<1>>
    /\ sd.joined = <<1>>
    /\ tmInner = <<2>>
    /\ tk[2].owner = "manager"
    /\ tk[2].ncancel = 0

\* ---------------------------------------------------------------- C37
\* C37: once cancel() has been called on a TokioTask, a join() of it
\* eventually returns, whether or not the inner future ever finishes: the
\* spawned select! completes on the token.
C37_JoinReturnsAfterCancel ==
    \A t \in Tasks : (tk[t].ncancel > 0 /\ tk[t].owner = "joining") ~> (tk[t].owner = "joined")

\* a join() returned for a task that was cancelled once while it ran and
\* was stopped by the token
C37_Witness ==
    \E t \in Tasks :
        /\ tk[t].owner = "joined"
        /\ tk[t].how = "cancelled"
        /\ tk[t].ncancel = 1
        /\ tk[t].late = 0

\* ---------------------------------------------------------------- C32
\* C32: running is false after a start, and the callers of wait() have been
\* woken, only when both listening-socket reader tasks of that start have
\* terminated: no reader task runs while running is false, and a listen()
\* call that has executed running.store(false) has both of its readers
\* terminated.
C32_StoppedOnlyAfterReaders ==
    /\ ~running => \A p \in Ports : rd[p] # "running"
    /\ \A l \in Listeners :
           lpc[l] \in AfterStore => \A s \in Socks : rd[<<l, s>>] = "done"
    /\ \A w \in DOMAIN wpc :
           wpc[w] = "woken" =>
               \E l \in Listeners :
                   /\ lpc[l] \in AfterStore
                   /\ \A s \in Socks : rd[<<l, s>>] = "done"

\* a shutdown sequence has completed and a wait() call made during the run
\* has returned
C32_Witness ==
    /\ ~running
    /\ lpc[1] = "ret_Ok"
    /\ \A s \in Socks : rd[<<1, s>>] = "done"
    /\ \E w \in DOMAIN wpc : wpc[w] = "ret" /\ wrun[w] = 1

\* ---------------------------------------------------------------- C33
\* the handler of Router l fails in this step: the bind of the upstream
\* socket or the send to the remote server returns an error
HandlerFails(l) == RouterPanicBind(l) \/ RouterPanicSend(l)

\* the Router of l handles nothing in this step: its routing table, the
\* sockets it has bound and the datagrams it has sent stay as they are
HandlesNothing(l) ==
    /\ client_map'[l] = client_map[l]
    /\ \A u \in 1..Len(ups') : ups'[u].router = l => u <= Len(ups)
    /\ \A k \in 1..Len(crd') : crd'[k].router = l => k <= Len(crd)
    /\ \A x \in atServer' \ atServer : ups'[x.from].router # l

C33_Step ==
    \A l \in Listeners :
        \* the failure ends the loop and drops the messages still queued
        /\ HandlerFails(l) =>
               /\ apc'[l] = "panicked"
               /\ mailbox'[l] = <<>>
               /\ cur'[l] = NoMsg
        \* the loop never runs again: no message is queued or handled
        /\ apc[l] = "panicked" =>
               /\ apc'[l] = "panicked"
               /\ mailbox'[l] = <<>>
               /\ cur'[l] = NoMsg
               /\ HandlesNothing(l)

\* C33: when the Router's handler fails on a message (the bind for a new
\* client or the send to the remote server returns an error), the actor's
\* loop ends for good: the messages queued at that moment are dropped, and
\* no message sent to the actor afterwards is queued or handled.
C33_HandlerFailureEndsActor == [][C33_Step]_vars

\* the Router failed on the datagram one listening reader of its run sent
\* it; the other reader still runs and holds a client's datagram, which it
\* is about to send to the actor
C33_Witness ==
    /\ apc[1] = "panicked"
    /\ Len(ups) = 0
    /\ atServer = {}
    /\ \E s, r \in Socks :
           /\ rd[<<1, s>>] = "done"
           /\ rd[<<1, r>>] = "running"
           /\ inq[<<1, r>>] # <<>>

\* ---------------------------------------------------------------- C34
\* C34: in the output of build() the 16-bit length field holds the number of
\* bytes of the payload that follows it, and that payload is the twelve
\* fields of the PongData, each followed by ';'.
C34_LengthFieldIsPayloadLength ==
    cx.op = "pong_built" =>
        /\ AfterHeader(cx.out) = IntoString(cx.in.pong)
        /\ DeclaredLen(cx.out) = BLen(AfterHeader(cx.out))

\* ---------------------------------------------------------------- C35
\* C35: once a listen() call has returned Ok, both of its listening sockets
\* are closed (no task holds an Arc of either), so the bind of port 19132 by
\* a following listen() is not refused because of them.
C35_SocketsClosedAfterShutdown ==
    \A l \in Listeners : lpc[l] = "ret_Ok" =>
        /\ \A s \in Socks : ~SockOpen(<<l, s>>)
        /\ \A k \in Listeners : lpc[k] = "bind1" => ENABLED (ListenBindBroadcast(k) /\ lpc'[k] = "bind2")

====
